---- MODULE Spec2Model ----
(***************************************************************************)
(* Relay sessions of Limkon/Nodpxoy.                                       *)
(*                                                                         *)
(* One session of one relay variant is modelled per behaviour:             *)
(*   "ws" : WebSocket Trojan relay      (src/app.js 1-188)                 *)
(*   "v2" : raw-TCP relay, with cleanup (src/app.js 190-377)               *)
(*   "v1" : raw-TCP relay, first form   (src/unnamed/part_002 1-173)       *)
(* Sessions share no state, so one session is the whole state space.       *)
(*                                                                         *)
(* Sockets: a net.Socket is "connecting" (upstream only), "open",          *)
(* "destroyed" (destroy() has run, 'error'/'close' not yet emitted) or     *)
(* "closed" ('close' emitted).  A WebSocket is "OPEN", "CLOSING" (close()  *)
(* called locally, peer frames may still arrive) or "CLOSED".              *)
(***************************************************************************)
EXTENDS Integers, Sequences, FiniteSets, TLC

VARIABLES
    variant,            \* which relay program runs
    input,              \* what the worker will send: bytes (tcp) or messages (ws)
    pos,                \* how much of input has been delivered
    upSent,             \* number of chunks the upstream target has sent
    workerSocket,       \* state of the inbound socket
    workerErr,          \* worker destroyed with an error whose 'error' event is pending
    workerOut,          \* everything written to the worker, in order
    targetHost,
    targetPort,
    targetInfoReceived,
    handshakeCompleted,
    upstreamSocket,     \* index into ups of the closure variable, 0 = null
    ups,                \* every upstream socket the session created
    initialDataBuffer,  \* Buffer.concat of the array of buffered chunks
    connectTimer,       \* "armed", "cleared", "fired" or "null"
    workerPipe,         \* ups index the worker is piped into, 0 = none
    relayListeners,     \* ws: number of 'message' listeners added in connect callbacks
    pending,            \* ws: messages whose awaited parse has not resumed
    closeCode,          \* ws: status code of the close the relay sent, 0 = none
    clientSocket,       \* http: state of the client socket
    clientErr,          \* http: client destroyed with an error, 'error' pending
    clientOut,          \* http: the writes made to the client, in order
    buffer,             \* http: the buffered initial request
    clientPipe,         \* http: clientSocket.pipe(upstreamSocket) is set up
    upEnded,            \* http: upstreamSocket.end() was called
    upstreamListeners,  \* http: the branch that dialed, "CONNECT" or "HTTP"
    hist,               \* observation record of the session (never read by handlers)
    udpClientMap,       \* udp: clientKey -> {address, port, lastSeen}
    udpSent,            \* udp: the datagrams passed to udpProxyServer.send, in order
    udpRecv,            \* udp: the 'message' events so far (observation)
    clock,              \* Date.now(), in ms since the program started
    reapedAt,           \* time of the last pass of the setInterval callback
    udpSocket,          \* udpProxyServer: "bound", "closing" or "closed"
    tcpServer,          \* tcpProxyServer: "listening", "closing" or "closed"
    conn,               \* the TCP connections: "none", "open" or "closed"
    openAtSignal,       \* connections open when SIGINT arrived (observation)
    tcpClosed,          \* the close callback of tcpProxyServer has run
    udpClosed,          \* the close callback of udpProxyServer has run
    exitTimer,          \* the 5 s timer of the SIGINT handler
    processExit,        \* [done, code]: the process has exited with the code
    flow                \* ws: buffer and pause state of the two copy directions

vars == <<variant, input, pos, upSent, workerSocket, workerErr, workerOut,
          targetHost, targetPort, targetInfoReceived, handshakeCompleted,
          upstreamSocket, ups, initialDataBuffer, connectTimer, workerPipe,
          relayListeners, pending, closeCode, clientSocket, clientErr,
          clientOut, buffer, clientPipe, upEnded, upstreamListeners, hist,
          udpClientMap, udpSent, udpRecv, clock, reapedAt, udpSocket,
          tcpServer, conn, openAtSignal, tcpClosed, udpClosed, exitTimer,
          processExit, flow>>

\* the state of the listeners of the process, outside any one session
serverVars ==
    <<udpClientMap, udpSent, udpRecv, clock, reapedAt, udpSocket, tcpServer,
      conn, openAtSignal, tcpClosed, udpClosed, exitTimer, processExit>>

flowVars == <<flow>>

(***************************************************************************)
(* Bounds                                                                  *)
(***************************************************************************)
MaxChunk   == 3     \* largest worker chunk, in bytes
MaxPayload == 2     \* payload bytes that follow a header
MaxUpData  == 1     \* chunks the upstream target sends
MaxMsgs    == 2     \* WebSocket messages the worker sends
MaxCoalesce == 2    \* http: pieces of the client's stream one 'data' event carries

(***************************************************************************)
(* Sequences of bytes                                                      *)
(***************************************************************************)
Slice(b, from) == IF from >= Len(b) THEN <<>> ELSE SubSeq(b, from + 1, Len(b))

Take(b, n) == IF n >= Len(b) THEN b ELSE SubSeq(b, 1, n)

ReadUInt8(b, off) == b[off + 1]

ReadUInt16BE(b, off) == b[off + 1] * 256 + b[off + 2]

RECURSIVE Hex(_)
Hex(n) == IF n < 16 THEN <<n>> ELSE Hex(n \div 16) \o <<n % 16>>

Count(seq, x) == Cardinality({i \in 1..Len(seq) : seq[i] = x})

IsPrefix(a, b) == Len(a) <= Len(b) /\ a = SubSeq(b, 1, Len(a))

(***************************************************************************)
(* Signalling bytes and upstream payload marks                             *)
(***************************************************************************)
StatusSuccess == 0      \* Buffer.from([0])
StatusFailure == 1      \* Buffer.from([1])

\* the k-th chunk the target sends is the single byte 200 + k
UpByte(k) == 200 + k
IsUpByte(x) == x >= UpByte(0)

(***************************************************************************)
(* Sockets                                                                 *)
(***************************************************************************)
NewSocket(host, port, left) ==
    [st |-> "connecting", err |-> FALSE, out |-> <<>>, piped |-> 0,
     host |-> host, port |-> port, left |-> left]

\* socket.writable: set by connect(), cleared by destroy()
SocketWritable(sock) == sock.st \in {"connecting", "open"}

\* socket.destroyed
SocketDestroyed(sock) == sock.st \in {"destroyed", "closed"}

\* upstreamSocket && upstreamSocket.writable
UpstreamWritable(s) ==
    s.upstreamSocket # 0 /\ SocketWritable(s.ups[s.upstreamSocket])

\* upstreamSocket && !upstreamSocket.destroyed
UpstreamAlive(s) ==
    s.upstreamSocket # 0 /\ ~SocketDestroyed(s.ups[s.upstreamSocket])

\* sock.write(data) on upstream socket i: bytes written while connecting are
\* queued by the socket and reach the wire in call order; a destroyed socket
\* takes nothing.
UpstreamWrite(s, i, data) ==
    IF i # 0 /\ SocketWritable(s.ups[i])
    THEN [s EXCEPT !.ups[i].out = @ \o data,
                   !.hist.lateWrite = @ \/ s.hist.cleaned]
    ELSE IF i # 0
    THEN [s EXCEPT !.hist.lateWrite = @ \/ s.hist.cleaned]
    ELSE s

\* upstreamSocket.destroy()
UpstreamDestroy(s, i) ==
    IF i # 0 /\ ~SocketDestroyed(s.ups[i])
    THEN [s EXCEPT !.ups[i].st = "destroyed"]
    ELSE s

\* workerSocket.write(b) on the TCP worker socket
WorkerWrite(s, b) ==
    IF s.workerSocket = "open"
    THEN [s EXCEPT !.workerOut = Append(@, b)]
    ELSE s

\* workerSocket.destroy(err) on the TCP worker socket
WorkerDestroy(s, withErr) ==
    IF s.workerSocket = "open"
    THEN [s EXCEPT !.workerSocket = "destroyed", !.workerErr = withErr]
    ELSE s

\* if (timer) clearTimeout(timer)
ClearTimer(s) ==
    IF s.connectTimer = "armed" THEN [s EXCEPT !.connectTimer = "cleared"] ELSE s

(***************************************************************************)
(* Raw-TCP address header                                                  *)
(***************************************************************************)
ParseWait == [kind |-> "wait"]
ParseFail == [kind |-> "fail"]
ParseOk(host, port, consumed, atyp) ==
    [kind |-> "ok", host |-> host, port |-> port, consumed |-> consumed,
     atyp |-> atyp]

\* Buffer.toString('utf8', a, b): bytes above 127 that form no valid sequence
\* decode to U+FFFD
ToStringUtf8(bytes) ==
    [i \in 1..Len(bytes) |-> IF bytes[i] < 128 THEN bytes[i] ELSE 65533]

HostIPv4(b, off) ==
    [kind |-> "ipv4",
     text |-> <<ReadUInt8(b, off), ReadUInt8(b, off + 1),
                ReadUInt8(b, off + 2), ReadUInt8(b, off + 3)>>]

HostDomain(b, off, len) ==
    [kind |-> "domain",
     text |-> ToStringUtf8(IF len = 0 THEN <<>> ELSE SubSeq(b, off + 1, off + len))]

\* faulty variant: the eight groups are read one byte apart
HostIPv6V2_stride1(b, off) ==
    [kind |-> "ipv6",
     text |-> [k \in 1..8 |-> Hex(ReadUInt16BE(b, off + (k - 1)))]]

\* v2: for (i = 0; i < 8; i++) readUInt16BE(consumedBytes + i * 2).toString(16)
HostIPv6V2(b, off) ==
    [kind |-> "ipv6",
     text |-> [k \in 1..8 |-> Hex(ReadUInt16BE(b, off + (k - 1) * 2))]]

\* v1: for (i = 0; i < 16; i += 2) readUInt16BE(consumedBytes + i).toString(16)
HostIPv6V1(b, off) ==
    LET offs == [k \in 1..8 |-> 2 * (k - 1)]
    IN  [kind |-> "ipv6",
         text |-> [k \in 1..8 |-> Hex(ReadUInt16BE(b, off + offs[k]))]]

ParseTargetV2(b) ==
    IF Len(b) < 1 THEN ParseWait
    ELSE LET addressType == ReadUInt8(b, 0) IN
         IF addressType = 1 THEN
             IF Len(b) < 1 + 4 + 2 THEN ParseWait
             ELSE ParseOk(HostIPv4(b, 1), ReadUInt16BE(b, 5), 7, addressType)
         ELSE IF addressType = 2 THEN
             IF Len(b) < 1 + 1 THEN ParseWait
             ELSE LET addressLength == ReadUInt8(b, 1) IN
                  IF Len(b) < 2 + addressLength + 2 THEN ParseWait
                  ELSE ParseOk(HostDomain(b, 2, addressLength),
                               ReadUInt16BE(b, 2 + addressLength),
                               2 + addressLength + 2, addressType)
         ELSE IF addressType = 3 THEN
             IF Len(b) < 1 + 16 + 2 THEN ParseWait
             ELSE ParseOk(HostIPv6V2(b, 1), ReadUInt16BE(b, 17), 19, addressType)
         ELSE ParseFail

ParseTargetV1(b) ==
    IF Len(b) < 1 THEN ParseWait
    ELSE LET addressType == ReadUInt8(b, 0) IN
         IF addressType = 1 THEN
             IF Len(b) < 1 + 4 + 2 THEN ParseWait
             ELSE ParseOk(HostIPv4(b, 1), ReadUInt16BE(b, 5), 7, addressType)
         ELSE IF addressType = 2 THEN
             IF Len(b) < 1 + 1 THEN ParseWait
             ELSE LET addressLength == ReadUInt8(b, 1) IN
                  IF Len(b) < 2 + addressLength + 2 THEN ParseWait
                  ELSE ParseOk(HostDomain(b, 2, addressLength),
                               ReadUInt16BE(b, 2 + addressLength),
                               2 + addressLength + 2, addressType)
         ELSE IF addressType = 3 THEN
             IF Len(b) < 1 + 16 + 2 THEN ParseWait
             ELSE ParseOk(HostIPv6V1(b, 1), ReadUInt16BE(b, 17), 19, addressType)
         ELSE ParseFail

\* faulty variant: the chunk replaces the buffer instead of being appended to it
bufferChunk_replace(s, data) == [s EXCEPT !.initialDataBuffer = data]

\* initialDataBuffer.push(data)
bufferChunk(s, data) == [s EXCEPT !.initialDataBuffer = @ \o data]

(***************************************************************************)
(* Raw-TCP relay v2 (src/app.js 190-377): handlers as functions of the     *)
(* session record s                                                        *)
(***************************************************************************)
\* faulty variant: the failure byte is written whether or not the handshake completed
cleanupV2_noGuard(s, errorMessage) ==
    LET s1 == [ClearTimer(s) EXCEPT !.hist.cleaned = TRUE]
        s2 == IF ~(s1.workerSocket \in {"destroyed", "closed"})
              THEN WorkerDestroy(
                       IF errorMessage THEN WorkerWrite(s1, StatusFailure) ELSE s1,
                       errorMessage)
              ELSE s1
    IN  IF UpstreamAlive(s2) THEN UpstreamDestroy(s2, s2.upstreamSocket) ELSE s2

cleanupV2(s, errorMessage) ==
    LET s1 == [ClearTimer(s) EXCEPT !.hist.cleaned = TRUE,
                                    !.hist.lateError =
                   @ \/ (errorMessage /\ s.handshakeCompleted)]
        s2 == IF ~(s1.workerSocket \in {"destroyed", "closed"})
              THEN WorkerDestroy(
                       IF errorMessage /\ ~s1.handshakeCompleted
                       THEN WorkerWrite(s1, StatusFailure) ELSE s1,
                       errorMessage)
              ELSE s1
    IN  IF UpstreamAlive(s2) THEN UpstreamDestroy(s2, s2.upstreamSocket) ELSE s2

\* the part of the 'data' handler that runs when the header is complete:
\* record the target, keep the leftover, create the socket and dial
DialV2(s, combinedBuffer, p) ==
    LET remainingVlessData == Slice(combinedBuffer, p.consumed)
    IN  [s EXCEPT !.targetHost = p.host,
                  !.targetPort = p.port,
                  !.targetInfoReceived = TRUE,
                  !.initialDataBuffer = remainingVlessData,
                  !.ups = Append(@, NewSocket(p.host, p.port, <<>>)),
                  !.upstreamSocket = Len(s.ups) + 1,
                  !.hist.leftover = remainingVlessData]

\* workerSocket.on('data')
onWorkerDataV2(s, data) ==
    IF s.handshakeCompleted /\ UpstreamWritable(s)
    THEN UpstreamWrite(s, s.upstreamSocket, data)
    ELSE LET s1 == bufferChunk(s, data) IN
         IF s1.targetInfoReceived THEN s1
         ELSE LET combinedBuffer == s1.initialDataBuffer
                  p == ParseTargetV2(combinedBuffer)
              IN  CASE p.kind = "wait" -> s1
                    [] p.kind = "fail" -> cleanupV2(s1, TRUE)
                    [] p.kind = "ok"   -> DialV2(s1, combinedBuffer, p)

\* faulty variant: the connect callback starts the pipes without the status byte
connectStatusV2_skip(s) == s

\* what the connect callback sends to the worker before anything else
connectStatusV2(s) == WorkerWrite(s, StatusSuccess)

\* faulty variant of onConnectV2: the buffered bytes are dropped, not written
onConnectV2_dropBuffer(s) ==
    LET s1 == [ClearTimer(s) EXCEPT !.connectTimer = "null"]
        s2 == [connectStatusV2(s1) EXCEPT !.handshakeCompleted = TRUE,
                                          !.initialDataBuffer = <<>>]
    IN  [s2 EXCEPT !.workerPipe = s2.upstreamSocket,
                   !.ups[s2.upstreamSocket].piped = 1]

\* callback of upstreamSocket.connect
onConnectV2(s) ==
    LET s1 == [ClearTimer(s) EXCEPT !.connectTimer = "null"]
        s2 == [connectStatusV2(s1) EXCEPT !.handshakeCompleted = TRUE]
        headPayload == s2.initialDataBuffer
        \* the array holds the leftover chunk since the dial, so its length is > 0
        s3 == [(IF Len(headPayload) > 0
                THEN UpstreamWrite(s2, s2.upstreamSocket, headPayload)
                ELSE s2)
               EXCEPT !.initialDataBuffer = <<>>]
    IN  [s3 EXCEPT !.workerPipe = s3.upstreamSocket,
                   !.ups[s3.upstreamSocket].piped = 1]

\* faulty variant: the error handler cleans up without an error message
onUpstreamErrorV2_silent(s) == cleanupV2(s, FALSE)

\* upstreamSocket.on('error')
onUpstreamErrorV2(s) == cleanupV2(s, TRUE)

\* faulty variant of onUpstreamCloseV2: the upstream close leaves the worker alone
onUpstreamCloseV2_keep(s) == s

\* upstreamSocket.on('close')
onUpstreamCloseV2(s) == ClearTimer(WorkerDestroy(s, FALSE))

\* upstreamSocket.setTimeout callback
onUpstreamTimeoutV2(s) == cleanupV2(s, TRUE)

\* workerSocket.on('error')
onWorkerErrorV2(s) == cleanupV2(s, TRUE)

\* workerSocket.on('close')
onWorkerCloseV2(s) == cleanupV2(s, FALSE)

\* faulty variant: the inactivity timeout closes the session whatever its state
onWorkerTimeoutV2_always(s) == cleanupV2(s, TRUE)

\* workerSocket.setTimeout callback
onWorkerTimeoutV2(s) ==
    IF ~s.targetInfoReceived THEN cleanupV2(s, TRUE) ELSE s

\* faulty variant: the handshake timer does nothing when it fires
onConnectTimerV2_noop(s) == s

\* connectTimer callback
onConnectTimerV2(s) == cleanupV2(s, TRUE)

(***************************************************************************)
(* Raw-TCP relay v1 (src/unnamed/part_002 1-173)                           *)
(***************************************************************************)
\* faulty variant: the worker socket is destroyed without the failure byte
failV1_silent(s) == ClearTimer(WorkerDestroy(s, TRUE))

\* if (!workerSocket.destroyed) { write([1]); destroy(e) }; clearTimeout
failV1(s) ==
    ClearTimer(IF ~(s.workerSocket \in {"destroyed", "closed"})
               THEN WorkerDestroy(WorkerWrite(s, StatusFailure), TRUE)
               ELSE s)

DialV1(s, combinedBuffer, p) ==
    LET remainingVlessData == Slice(combinedBuffer, p.consumed)
        s1 == ClearTimer(s)
    IN  [s1 EXCEPT !.targetHost = p.host,
                   !.targetPort = p.port,
                   !.targetInfoReceived = TRUE,
                   !.initialDataBuffer = remainingVlessData,
                   !.ups = Append(@, NewSocket(p.host, p.port, <<>>)),
                   !.upstreamSocket = Len(s.ups) + 1,
                   !.hist.leftover = remainingVlessData]

\* workerSocket.on('data')
onWorkerDataV1(s, data) ==
    IF UpstreamWritable(s)
    THEN UpstreamWrite(s, s.upstreamSocket, data)
    ELSE LET s1 == bufferChunk(s, data) IN
         IF s1.targetInfoReceived THEN s1
         ELSE LET combinedBuffer == s1.initialDataBuffer
                  p == ParseTargetV1(combinedBuffer)
              IN  CASE p.kind = "wait" -> s1
                    [] p.kind = "fail" -> failV1(s1)
                    [] p.kind = "ok"   -> DialV1(s1, combinedBuffer, p)

connectStatusV1(s) == WorkerWrite(s, StatusSuccess)

\* callback of upstreamSocket.connect
onConnectV1(s) ==
    LET s2 == connectStatusV1(s)
        headPayload == s2.initialDataBuffer
        \* the array holds the leftover chunk since the dial, so its length is > 0
        s3 == [(IF Len(headPayload) > 0
                THEN UpstreamWrite(s2, s2.upstreamSocket, headPayload)
                ELSE s2)
               EXCEPT !.initialDataBuffer = <<>>]
    IN  [s3 EXCEPT !.workerPipe = s3.upstreamSocket,
                   !.ups[s3.upstreamSocket].piped = 1]

\* upstreamSocket.on('error')
onUpstreamErrorV1(s) == failV1(s)

\* upstreamSocket.on('close')
onUpstreamCloseV1(s) == ClearTimer(WorkerDestroy(s, FALSE))

\* upstreamSocket.on('timeout')
onUpstreamTimeoutV1(s) == failV1(s)

\* workerSocket.on('error') and workerSocket.on('close')
onWorkerErrorV1(s) ==
    ClearTimer(IF UpstreamAlive(s) THEN UpstreamDestroy(s, s.upstreamSocket) ELSE s)

onWorkerCloseV1(s) ==
    ClearTimer(IF UpstreamAlive(s) THEN UpstreamDestroy(s, s.upstreamSocket) ELSE s)

\* workerSocket.on('timeout')
onWorkerTimeoutV1(s) ==
    ClearTimer(WorkerDestroy(
        IF UpstreamAlive(s) THEN UpstreamDestroy(s, s.upstreamSocket) ELSE s,
        TRUE))

\* connectTimeout callback
onConnectTimerV1(s) ==
    IF ~s.targetInfoReceived \/ s.upstreamSocket = 0 \/ ~UpstreamWritable(s)
    THEN WorkerDestroy(s, TRUE)
    ELSE s

\* the listener workerSocket.pipe(upstreamSocket) adds to 'data': it runs after
\* the handler above on every chunk
pipeWorkerData(s, data) ==
    IF s.workerPipe # 0 THEN UpstreamWrite(s, s.workerPipe, data) ELSE s

\* the listener upstreamSocket.pipe(workerSocket) adds to the upstream's 'data'
pipeUpstreamData(s, i, b) ==
    IF s.ups[i].piped > 0 THEN WorkerWrite(s, b) ELSE s

(***************************************************************************)
(* WebSocket Trojan relay (src/app.js 1-188)                               *)
(***************************************************************************)
IsHexChar(c) ==
    (c >= 48 /\ c <= 57) \/ (c >= 97 /\ c <= 102) \/ (c >= 65 /\ c <= 70)

TrojanError == [hasError |-> TRUE]

\* the header past the length check, after the layout of the specification:
\* 56 hex characters, CRLF, command, ATYP, address, port, CRLF, leftover
TrojanRest(b) ==
    IF \E i \in 1..56 : ~IsHexChar(b[i]) THEN TrojanError
    ELSE IF Len(b) < 60 \/ b[57] # 13 \/ b[58] # 10 \/ b[59] # 1 THEN TrojanError
    ELSE LET atyp == b[60]
             alen == IF atyp = 1 THEN 4
                     ELSE IF atyp = 4 THEN 16
                     ELSE IF atyp = 3 /\ Len(b) >= 61 THEN 1 + b[61]
                     ELSE 0
             portOff == 60 + alen          \* 0-based offset of the port
         IN  IF alen = 0 \/ Len(b) < portOff + 4 THEN TrojanError
             ELSE IF b[portOff + 3] # 13 \/ b[portOff + 4] # 10 THEN TrojanError
             ELSE [hasError |-> FALSE,
                   addressRemote |->
                       IF atyp = 1 THEN HostIPv4(b, 60)
                       ELSE IF atyp = 4 THEN HostIPv6V2(b, 60)
                       ELSE HostDomain(b, 61, b[61]),
                   portRemote |-> ReadUInt16BE(b, portOff),
                   rawClientData |-> Slice(b, portOff + 4)]

\* parseTrojanHeader: the source has the length check and stops there
parseTrojanHeader(b) ==
    IF Len(b) < 56 THEN TrojanError
    ELSE TrojanRest(b)

\* workerSocket.send(b) guarded by readyState === OPEN
WsSend(s, b) ==
    IF s.workerSocket = "OPEN" THEN [s EXCEPT !.workerOut = Append(@, b)] ELSE s

\* workerSocket.close(code) guarded by readyState === OPEN
WsClose(s, code) ==
    IF s.workerSocket = "OPEN"
    THEN [s EXCEPT !.workerSocket = "CLOSING", !.closeCode = code]
    ELSE s

cleanupWS(s, errorMessage) ==
    LET s1 == [ClearTimer(s) EXCEPT !.hist.cleaned = TRUE,
                                    !.hist.lateError =
                   @ \/ (errorMessage /\ s.handshakeCompleted)]
        s2 == IF s1.workerSocket = "OPEN"
              THEN WsClose(IF errorMessage /\ ~s1.handshakeCompleted
                           THEN WsSend(s1, StatusFailure) ELSE s1,
                           1011)
              ELSE s1
    IN  IF UpstreamAlive(s2) THEN UpstreamDestroy(s2, s2.upstreamSocket) ELSE s2

\* first workerSocket.on('message') listener, up to its await
onMessageWS(s, message) ==
    IF s.handshakeCompleted /\ UpstreamAlive(s)
    THEN IF message.bin THEN UpstreamWrite(s, s.upstreamSocket, message.data) ELSE s
    ELSE IF ~s.targetInfoReceived
         THEN IF ~message.bin THEN cleanupWS(s, TRUE)
              ELSE [s EXCEPT !.pending = Append(@, message)]
         ELSE s

\* the listeners the connect callbacks added with workerSocket.on('message'):
\* each writes the message to the socket the closure variable names now
RECURSIVE relayMessageWS(_, _, _)
relayMessageWS(s, message, n) ==
    IF n = 0 \/ ~message.bin THEN s
    ELSE relayMessageWS(UpstreamWrite(s, s.upstreamSocket, message.data),
                        message, n - 1)

\* the first listener after `await parseTrojanHeader(message)` resumes
onParsedWS(s, message) ==
    LET parsedInfo == parseTrojanHeader(message.data) IN
    IF parsedInfo.hasError
    THEN [cleanupWS(s, TRUE) EXCEPT !.hist.parseErr = TRUE]
    ELSE [s EXCEPT !.targetHost = parsedInfo.addressRemote,
                   !.targetPort = parsedInfo.portRemote,
                   !.targetInfoReceived = TRUE,
                   !.ups = Append(@, NewSocket(parsedInfo.addressRemote,
                                               parsedInfo.portRemote,
                                               parsedInfo.rawClientData)),
                   !.upstreamSocket = Len(s.ups) + 1,
                   !.hist.leftover = parsedInfo.rawClientData,
                   !.hist.parsedAt = message.at]

\* what the connect callback sends to the worker before anything else
connectStatusWS(s) == WsSend(s, StatusSuccess)

\* callback of net.connect for socket i.  sendThrows: workerSocket.send on a
\* WebSocket that is not OPEN throws in some releases of ws and is dropped
\* in others.
onConnectWS(s, i, sendThrows) ==
    LET s1 == [ClearTimer(s) EXCEPT !.connectTimer = "null",
                                    !.handshakeCompleted = TRUE]
    IN  IF s1.workerSocket # "OPEN" /\ sendThrows
        THEN cleanupWS(s1, TRUE)
        ELSE LET s2 == connectStatusWS(s1)
                 s3 == IF Len(s2.ups[i].left) > 0
                       THEN UpstreamWrite(s2, s2.upstreamSocket, s2.ups[i].left)
                       ELSE s2
             IN  [s3 EXCEPT !.relayListeners = @ + 1,
                            !.ups[s3.upstreamSocket].piped = @ + 1]

\* upstreamSocket.on('data') listeners: one send per listener
RECURSIVE onUpstreamDataWS(_, _, _)
onUpstreamDataWS(s, b, n) ==
    IF n = 0 THEN s ELSE onUpstreamDataWS(WsSend(s, b), b, n - 1)

onUpstreamErrorWS(s) == cleanupWS(s, TRUE)

\* upstreamSocket.on('close'): workerSocket.close() carries no status code
onUpstreamCloseWS(s) == ClearTimer(WsClose(s, 1005))

onUpstreamTimeoutWS(s) == cleanupWS(s, TRUE)

onWorkerErrorWS(s) == cleanupWS(s, TRUE)

onWorkerCloseWS(s) == cleanupWS(s, FALSE)

onWorkerTimeoutWS(s) ==
    IF ~s.targetInfoReceived THEN cleanupWS(s, TRUE) ELSE s

onConnectTimerWS(s) == cleanupWS(s, TRUE)

(***************************************************************************)
(* Inputs                                                                  *)
(***************************************************************************)
Payload == [i \in 1..MaxPayload |-> 64 + i]

HdrIPv4   == <<1, 10, 0, 0, 1, 0, 80>>
HdrPort0  == <<1, 10, 0, 0, 2, 0, 0>>
HdrDomain == <<2, 2, 97, 98, 1, 187>>
HdrEmpty  == <<2, 0, 0, 80>>
HdrIPv6   == <<3, 32, 1, 13, 184, 0, 0, 0, 0, 0, 0, 0, 0, 0, 0, 0, 1, 0, 80>>
HdrBad0   == <<0, 7>>
HdrBad4   == <<4, 1, 2, 3>>

Headers == {HdrIPv4, HdrPort0, HdrDomain, HdrEmpty, HdrIPv6, HdrBad0, HdrBad4}

\* every prefix of a header followed by the payload
Streams == {Take(h \o Payload, n) : h \in Headers, n \in 0..(19 + MaxPayload)}

TrojanPassword == [i \in 1..56 |-> 97]
TrojanHeader   ==
    TrojanPassword \o <<13, 10, 1, 1, 10, 0, 0, 1, 0, 80, 13, 10>>

MsgGood   == [bin |-> TRUE,  data |-> TrojanHeader \o <<65>>]
MsgPart1  == [bin |-> TRUE,  data |-> Take(TrojanHeader \o <<65>>, 30)]
MsgPart2  == [bin |-> TRUE,  data |-> Slice(TrojanHeader \o <<65>>, 30)]
MsgBadPw  == [bin |-> TRUE,  data |-> [i \in 1..56 |-> 122] \o <<13, 10>>]
MsgText   == [bin |-> FALSE, data |-> <<84>>]
MsgB      == [bin |-> TRUE,  data |-> <<66>>]

Messages == {MsgGood, MsgPart1, MsgPart2, MsgBadPw, MsgText, MsgB}

RECURSIVE SeqsUpTo(_, _)
SeqsUpTo(S, n) ==
    IF n = 0 THEN {<<>>}
    ELSE LET shorter == SeqsUpTo(S, n - 1)
         IN  shorter \cup {Append(q, x) : q \in shorter, x \in S}

MessageSeqs == SeqsUpTo(Messages, MaxMsgs)

(***************************************************************************)
(* The session record and the variables                                    *)
(***************************************************************************)
httpVars ==
    <<clientSocket, clientErr, clientOut, buffer, clientPipe, upEnded,
      upstreamListeners>>

MaxConns == 2       \* TCP connections the listener accepts

\* a relaying WebSocket session with empty buffers: wsOpen (readyState is
\* OPEN), upNeedsDrain (an upstream write returned false and 'drain' has not
\* been emitted), wsBuffered (the send buffer of the WebSocket is full),
\* workerPaused / upstreamPaused (pause() is in effect), drainListeners
\* (once('drain') listeners waiting), msgs / datas (events so far), fullSend
\* (send was called while the send buffer was full; observation)
NoFlow ==
    [wsOpen |-> TRUE, upNeedsDrain |-> FALSE, wsBuffered |-> FALSE,
     workerPaused |-> FALSE, upstreamPaused |-> FALSE, drainListeners |-> 0,
     msgs |-> 0, datas |-> 0, fullSend |-> FALSE]

\* the process after start-up: TCP listener listening, UDP socket bound, the
\* client map empty, the cleaning interval started, no signal yet
ServerStart ==
    /\ udpClientMap = [k \in {} |-> 0]
    /\ udpSent = <<>>
    /\ udpRecv = <<>>
    /\ clock = 0
    /\ reapedAt = 0
    /\ udpSocket = "bound"
    /\ tcpServer = "listening"
    /\ conn = [c \in 1..MaxConns |-> "none"]
    /\ openAtSignal = {}
    /\ tcpClosed = FALSE
    /\ udpClosed = FALSE
    /\ exitTimer = "none"
    /\ processExit = [done |-> FALSE, code |-> 0]
    /\ flow = NoFlow

Cur ==
    [workerSocket |-> workerSocket, workerErr |-> workerErr,
     workerOut |-> workerOut, targetHost |-> targetHost,
     targetPort |-> targetPort, targetInfoReceived |-> targetInfoReceived,
     handshakeCompleted |-> handshakeCompleted,
     upstreamSocket |-> upstreamSocket, ups |-> ups,
     initialDataBuffer |-> initialDataBuffer, connectTimer |-> connectTimer,
     workerPipe |-> workerPipe, relayListeners |-> relayListeners,
     pending |-> pending, closeCode |-> closeCode, hist |-> hist]

Set(s) ==
    /\ workerSocket' = s.workerSocket
    /\ workerErr' = s.workerErr
    /\ workerOut' = s.workerOut
    /\ targetHost' = s.targetHost
    /\ targetPort' = s.targetPort
    /\ targetInfoReceived' = s.targetInfoReceived
    /\ handshakeCompleted' = s.handshakeCompleted
    /\ upstreamSocket' = s.upstreamSocket
    /\ ups' = s.ups
    /\ initialDataBuffer' = s.initialDataBuffer
    /\ connectTimer' = s.connectTimer
    /\ workerPipe' = s.workerPipe
    /\ relayListeners' = s.relayListeners
    /\ pending' = s.pending
    /\ closeCode' = s.closeCode
    /\ hist' = s.hist
    /\ UNCHANGED httpVars
    /\ UNCHANGED serverVars
    /\ UNCHANGED flowVars

IsTcp == variant \in {"v1", "v2"}

\* hist: leftover and parsedAt (the input position) of the parsed header,
\* failAt (the input position at which the header was refused), parseErr
\* (parseTrojanHeader reported an error), dialFailed (an upstream socket
\* failed while connecting), dialFailOpen (the worker socket was open when
\* that failure was handled), lateError (cleanup ran with an error message
\* after the handshake completed), cleaned (cleanup has run), upEof (the
\* target closed its side of an upstream socket), lateWrite (write was called
\* on an upstream socket after cleanup had run)
NoHist ==
    [leftover |-> <<>>, parsedAt |-> 0, parseErr |-> FALSE,
     dialFailed |-> FALSE, dialFailOpen |-> FALSE, failAt |-> 0,
     lateError |-> FALSE, cleaned |-> FALSE, upEof |-> FALSE,
     lateWrite |-> FALSE]

\* the state right after the connection handler has run
Init ==
    /\ variant \in {"ws", "v1", "v2"}
    /\ input \in (IF variant = "ws" THEN MessageSeqs ELSE Streams)
    /\ pos = 0
    /\ upSent = 0
    /\ workerSocket = IF variant = "ws" THEN "OPEN" ELSE "open"
    /\ workerErr = FALSE
    /\ workerOut = <<>>
    /\ targetHost = [kind |-> "none", text |-> <<>>]
    /\ targetPort = 0
    /\ targetInfoReceived = FALSE
    /\ handshakeCompleted = FALSE
    /\ upstreamSocket = 0
    /\ ups = <<>>
    /\ initialDataBuffer = <<>>
    /\ connectTimer = "armed"
    /\ workerPipe = 0
    /\ relayListeners = 0
    /\ pending = <<>>
    /\ closeCode = 0
    /\ hist = NoHist
    /\ clientSocket = "none"
    /\ clientErr = FALSE
    /\ clientOut = <<>>
    /\ buffer = <<>>
    /\ clientPipe = FALSE
    /\ upEnded = FALSE
    /\ upstreamListeners = "none"
    /\ ServerStart

(***************************************************************************)
(* Events                                                                  *)
(***************************************************************************)
\* a chunk of the worker's byte stream arrives (raw-TCP relays)
WorkerData ==
    /\ IsTcp /\ workerSocket = "open" /\ pos < Len(input)
    /\ \E n \in 1..MaxChunk :
         LET m    == IF pos + n > Len(input) THEN Len(input) ELSE pos + n
             data == SubSeq(input, pos + 1, m)
             s1   == IF variant = "v2" THEN onWorkerDataV2(Cur, data)
                     ELSE onWorkerDataV1(Cur, data)
             s2   == pipeWorkerData(s1, data)
             s3   == IF ~targetInfoReceived /\ s2.targetInfoReceived
                     THEN [s2 EXCEPT !.hist.parsedAt = m]
                     ELSE IF ~targetInfoReceived /\ s2.workerSocket # "open"
                     THEN [s2 EXCEPT !.hist.failAt = m]
                     ELSE s2
         IN  pos' = m /\ Set(s3)
    /\ UNCHANGED <<variant, input, upSent>>

\* a WebSocket message arrives; further frames of the same read are delivered
\* before any awaited parse resumes
WsMessage ==
    /\ variant = "ws" /\ pos < Len(input)
    /\ workerSocket = "OPEN" \/ (workerSocket = "CLOSING" /\ ~workerErr)
    /\ LET message == [bin |-> input[pos + 1].bin, data |-> input[pos + 1].data,
                       at |-> pos + 1]
           s1 == onMessageWS(Cur, message)
       IN  Set(relayMessageWS(s1, message, s1.relayListeners))
    /\ pos' = pos + 1
    /\ UNCHANGED <<variant, input, upSent>>

\* the oldest awaited parseTrojanHeader resumes (microtask)
ParseResume ==
    /\ variant = "ws" /\ pending # <<>>
    /\ Set(onParsedWS([Cur EXCEPT !.pending = Tail(@)], Head(pending)))
    /\ UNCHANGED <<variant, input, pos, upSent>>

\* microtasks run before any other event is dispatched
Idle == pending = <<>>

\* upstream socket i connects
UpstreamConnect(i) ==
    /\ Idle /\ ups[i].st = "connecting"
    /\ LET s == [Cur EXCEPT !.ups[i].st = "open"] IN
         CASE variant = "v2" -> Set(onConnectV2(s))
           [] variant = "v1" -> Set(onConnectV1(s))
           [] variant = "ws" -> \E sendThrows \in BOOLEAN :
                                    Set(onConnectWS(s, i, sendThrows))
    /\ UNCHANGED <<variant, input, pos, upSent>>

\* the target sends a chunk on upstream socket i
UpstreamData(i) ==
    /\ Idle /\ ups[i].st = "open" /\ upSent < MaxUpData
    /\ IF variant = "ws"
       THEN Set(onUpstreamDataWS(Cur, UpByte(upSent), ups[i].piped))
       ELSE Set(pipeUpstreamData(Cur, i, UpByte(upSent)))
    /\ upSent' = upSent + 1
    /\ UNCHANGED <<variant, input, pos>>

\* upstream socket i fails (refused, reset, unreachable): node destroys it and
\* emits 'error' and 'close' afterwards
UpstreamError(i) ==
    /\ Idle /\ ups[i].st \in {"connecting", "open"}
    /\ Set([Cur EXCEPT !.ups[i].st = "destroyed", !.ups[i].err = TRUE,
                       !.hist.dialFailed = @ \/ ups[i].st = "connecting"])
    /\ UNCHANGED <<variant, input, pos, upSent>>

\* the target closes upstream socket i
UpstreamEnd(i) ==
    /\ Idle /\ ups[i].st = "open"
    /\ Set([Cur EXCEPT !.ups[i].st = "destroyed", !.hist.upEof = TRUE])
    /\ UNCHANGED <<variant, input, pos, upSent>>

\* 'error' (when destroyed with an error) and 'close' of upstream socket i
UpstreamEmitClose(i) ==
    /\ Idle /\ ups[i].st = "destroyed"
    /\ LET s0 == [Cur EXCEPT !.ups[i].st = "closed", !.ups[i].err = FALSE]
           s0h == IF ups[i].err /\ hist.dialFailed
                  THEN [s0 EXCEPT !.hist.dialFailOpen =
                                      workerSocket \in {"open", "OPEN"}]
                  ELSE s0
           s1 == IF ~ups[i].err THEN s0h
                 ELSE CASE variant = "v2" -> onUpstreamErrorV2(s0h)
                        [] variant = "v1" -> onUpstreamErrorV1(s0h)
                        [] variant = "ws" -> onUpstreamErrorWS(s0h)
       IN  CASE variant = "v2" -> Set(onUpstreamCloseV2(s1))
             [] variant = "v1" -> Set(onUpstreamCloseV1(s1))
             [] variant = "ws" -> Set(onUpstreamCloseWS(s1))
    /\ UNCHANGED <<variant, input, pos, upSent>>

\* the idle timer of upstream socket i fires
UpstreamTimeout(i) ==
    /\ Idle /\ ups[i].st \in {"connecting", "open"}
    /\ CASE variant = "v2" -> Set(onUpstreamTimeoutV2(Cur))
         [] variant = "v1" -> Set(onUpstreamTimeoutV1(Cur))
         [] variant = "ws" -> Set(onUpstreamTimeoutWS(Cur))
    /\ UNCHANGED <<variant, input, pos, upSent>>

\* the worker's TCP connection fails: node destroys the socket
WorkerError ==
    /\ IsTcp /\ workerSocket = "open"
    /\ Set(WorkerDestroy(Cur, TRUE))
    /\ UNCHANGED <<variant, input, pos, upSent>>

\* the worker closes its TCP connection
WorkerEnd ==
    /\ IsTcp /\ workerSocket = "open"
    /\ Set(WorkerDestroy(Cur, FALSE))
    /\ UNCHANGED <<variant, input, pos, upSent>>

\* 'error' (when destroyed with an error) and 'close' of the worker socket
WorkerEmitClose ==
    /\ IsTcp /\ workerSocket = "destroyed"
    /\ LET s0 == [Cur EXCEPT !.workerSocket = "closed", !.workerErr = FALSE]
           s1 == IF ~workerErr THEN s0
                 ELSE IF variant = "v2" THEN onWorkerErrorV2(s0)
                 ELSE onWorkerErrorV1(s0)
       IN  IF variant = "v2" THEN Set(onWorkerCloseV2(s1))
           ELSE Set(onWorkerCloseV1(s1))
    /\ UNCHANGED <<variant, input, pos, upSent>>

\* the WebSocket fails: ws leaves OPEN, stops reading and emits 'error'
WsError ==
    /\ variant = "ws" /\ Idle
    /\ workerSocket = "OPEN" \/ (workerSocket = "CLOSING" /\ ~workerErr)
    /\ Set(onWorkerErrorWS([Cur EXCEPT !.workerSocket = "CLOSING",
                                       !.workerErr = TRUE]))
    /\ UNCHANGED <<variant, input, pos, upSent>>

\* the WebSocket connection is gone: 'close' is emitted
WsClosed ==
    /\ variant = "ws" /\ Idle /\ workerSocket # "CLOSED"
    /\ Set(onWorkerCloseWS([Cur EXCEPT !.workerSocket = "CLOSED"]))
    /\ UNCHANGED <<variant, input, pos, upSent>>

\* the idle timer of the worker socket fires
WorkerTimeout ==
    /\ Idle /\ workerSocket \in {"open", "OPEN"}
    /\ CASE variant = "v2" -> Set(onWorkerTimeoutV2(Cur))
         [] variant = "v1" -> Set(onWorkerTimeoutV1(Cur))
         [] variant = "ws" -> Set(onWorkerTimeoutWS(Cur))
    /\ UNCHANGED <<variant, input, pos, upSent>>

\* connectTimer / connectTimeout fires
ConnectTimerFire ==
    /\ Idle /\ connectTimer = "armed"
    /\ LET s == [Cur EXCEPT !.connectTimer = "fired"] IN
         CASE variant = "v2" -> Set(onConnectTimerV2(s))
           [] variant = "v1" -> Set(onConnectTimerV1(s))
           [] variant = "ws" -> Set(onConnectTimerWS(s))
    /\ UNCHANGED <<variant, input, pos, upSent>>

Next ==
    \/ WorkerData
    \/ WsMessage
    \/ ParseResume
    \/ \E i \in 1..Len(ups) : UpstreamConnect(i)
    \/ \E i \in 1..Len(ups) : UpstreamData(i)
    \/ \E i \in 1..Len(ups) : UpstreamError(i)
    \/ \E i \in 1..Len(ups) : UpstreamEnd(i)
    \/ \E i \in 1..Len(ups) : UpstreamEmitClose(i)
    \/ \E i \in 1..Len(ups) : UpstreamTimeout(i)
    \/ WorkerError
    \/ WorkerEnd
    \/ WorkerEmitClose
    \/ WsError
    \/ WsClosed
    \/ WorkerTimeout
    \/ ConnectTimerFire

Spec == Init /\ [][Next]_vars

(***************************************************************************)
(* HTTP proxy: dynamic target (src/unnamed/part_001 17-160, "httpDyn") and *)
(* default target (src/app.js 394-528, "httpDef").  The client's stream is *)
(* a sequence of pieces; a 'data' event delivers one or more consecutive   *)
(* pieces.  All request text is ASCII, so offsets in buffer.toString() are *)
(* offsets in the buffer.                                                  *)
(***************************************************************************)
\* "\r\n"
CRLF ==
    <<13, 10>>

\* "CONNECT"
MethodCONNECT ==
    <<67, 79, 78, 78, 69, 67, 84>>

\* "http://"
HttpScheme ==
    <<104, 116, 116, 112, 58, 47, 47>>

\* "https://"
HttpsScheme ==
    <<104, 116, 116, 112, 115, 58, 47, 47>>

\* "HTTP/1.1 200 Connection established\r\n\r\n"
Resp200 ==
    <<72, 84, 84, 80, 47, 49, 46, 49, 32, 50, 48, 48, 32, 67, 111, 110,
    110, 101, 99, 116, 105, 111, 110, 32, 101, 115, 116, 97, 98, 108, 105,
    115, 104, 101, 100, 13, 10, 13, 10>>

\* "HTTP/1.1 400 Bad Request\r\n\r\n"
Resp400 ==
    <<72, 84, 84, 80, 47, 49, 46, 49, 32, 52, 48, 48, 32, 66, 97, 100, 32,
    82, 101, 113, 117, 101, 115, 116, 13, 10, 13, 10>>

\* "HTTP/1.1 400 Bad Request\r\n\r\nCannot proxy plain HTTP to https: target. Use CONNECT for HTTPS.\r\n\r\n"
Resp400Https ==
    <<72, 84, 84, 80, 47, 49, 46, 49, 32, 52, 48, 48, 32, 66, 97, 100, 32,
    82, 101, 113, 117, 101, 115, 116, 13, 10, 13, 10, 67, 97, 110, 110,
    111, 116, 32, 112, 114, 111, 120, 121, 32, 112, 108, 97, 105, 110, 32,
    72, 84, 84, 80, 32, 116, 111, 32, 104, 116, 116, 112, 115, 58, 32, 116,
    97, 114, 103, 101, 116, 46, 32, 85, 115, 101, 32, 67, 79, 78, 78, 69,
    67, 84, 32, 102, 111, 114, 32, 72, 84, 84, 80, 83, 46, 13, 10, 13, 10>>

\* "HTTP/1.1 400 Bad Request\r\n\r\nInvalid target URL for HTTP request.\r\n\r\n"
Resp400Url ==
    <<72, 84, 84, 80, 47, 49, 46, 49, 32, 52, 48, 48, 32, 66, 97, 100, 32,
    82, 101, 113, 117, 101, 115, 116, 13, 10, 13, 10, 73, 110, 118, 97,
    108, 105, 100, 32, 116, 97, 114, 103, 101, 116, 32, 85, 82, 76, 32,
    102, 111, 114, 32, 72, 84, 84, 80, 32, 114, 101, 113, 117, 101, 115,
    116, 46, 13, 10, 13, 10>>

\* "HTTP/1.1 502 Bad Gateway\r\n\r\n"
Resp502 ==
    <<72, 84, 84, 80, 47, 49, 46, 49, 32, 53, 48, 50, 32, 66, 97, 100, 32,
    71, 97, 116, 101, 119, 97, 121, 13, 10, 13, 10>>

\* "1.0.0.5"
DEFAULT_TARGET_TCP_IP ==
    <<49, 46, 48, 46, 48, 46, 53>>

\*   "CONNECT a:443 HTTP/1.1\r\n"
\*   "Host: a\r\n\r\n"
\*   "X"
ReqConnect ==
    << <<67, 79, 78, 78, 69, 67, 84, 32, 97, 58, 52, 52, 51, 32, 72, 84, 84, 80, 47, 49, 46, 49, 13, 10>>,
       <<72, 111, 115, 116, 58, 32, 97, 13, 10, 13, 10>>,
       <<88>> >>

\*   "CONN"
\*   "ECT a:443 HTTP/1.1\r\n\r\n"
\*   "X"
ReqConnectSplit ==
    << <<67, 79, 78, 78>>,
       <<69, 67, 84, 32, 97, 58, 52, 52, 51, 32, 72, 84, 84, 80, 47, 49, 46, 49, 13, 10, 13, 10>>,
       <<88>> >>

\*   "CONNECT a HTTP/1.1\r\n\r\n"
\*   "X"
ReqConnectBad ==
    << <<67, 79, 78, 78, 69, 67, 84, 32, 97, 32, 72, 84, 84, 80, 47, 49, 46, 49, 13, 10, 13, 10>>,
       <<88>> >>

\*   "GET http://a/ HTTP/1.1\r\n"
\*   "Host: a\r\n\r\n"
\*   "B"
ReqGet ==
    << <<71, 69, 84, 32, 104, 116, 116, 112, 58, 47, 47, 97, 47, 32, 72, 84, 84, 80, 47, 49, 46, 49, 13, 10>>,
       <<72, 111, 115, 116, 58, 32, 97, 13, 10, 13, 10>>,
       <<66>> >>

\*   "GET http://a:8080/ HTTP/1.1\r\n\r\n"
\*   "B"
ReqGetPort ==
    << <<71, 69, 84, 32, 104, 116, 116, 112, 58, 47, 47, 97, 58, 56, 48, 56, 48, 47, 32, 72, 84, 84, 80, 47, 49, 46, 49, 13, 10, 13, 10>>,
       <<66>> >>

\*   "GET https://a/ HTTP/1.1\r\n\r\n"
\*   "Z"
ReqHttps ==
    << <<71, 69, 84, 32, 104, 116, 116, 112, 115, 58, 47, 47, 97, 47, 32, 72, 84, 84, 80, 47, 49, 46, 49, 13, 10, 13, 10>>,
       <<90>> >>

\*   "GET / HTTP/1.1\r\n\r\n"
\*   "Z"
ReqRelative ==
    << <<71, 69, 84, 32, 47, 32, 72, 84, 84, 80, 47, 49, 46, 49, 13, 10, 13, 10>>,
       <<90>> >>

\*   "GET http:// HTTP/1.1\r\n\r\n"
\*   "Z"
ReqBadUrl ==
    << <<71, 69, 84, 32, 104, 116, 116, 112, 58, 47, 47, 32, 72, 84, 84, 80, 47, 49, 46, 49, 13, 10, 13, 10>>,
       <<90>> >>

DEFAULT_TARGET_TCP_PORT == 80

\* buffer.length > 8192
MaxHeaderBytes == 8192

\* a piece longer than the limit that holds no CRLF, and the end of its line
\*   "CONNECT a:443 " followed by 8192 times "A"
\*   "\r\n\r\n"
ReqOversize ==
    << <<67, 79, 78, 78, 69, 67, 84, 32, 97, 58, 52, 52, 51, 32>>
           \o [i \in 1..MaxHeaderBytes |-> 65],
       <<13, 10, 13, 10>> >>

Requests ==
    {ReqConnect, ReqConnectSplit, ReqConnectBad, ReqGet, ReqGetPort, ReqHttps,
     ReqRelative, ReqBadUrl, ReqOversize}

\* the bytes of pieces from+1 .. to of the client's stream
RECURSIVE Pieces(_, _, _)
Pieces(req, from, to) ==
    IF from >= to THEN <<>> ELSE Pieces(req, from, to - 1) \o req[to]

\* String.prototype.indexOf: 0-based index of the first occurrence, or -1
IndexOf(str, pat) ==
    LET hits == {i \in 1..(Len(str) - Len(pat) + 1) :
                     SubSeq(str, i, i + Len(pat) - 1) = pat}
    IN  IF hits = {} THEN 0 - 1
        ELSE (CHOOSE i \in hits : \A j \in hits : i <= j) - 1

\* String.prototype.split on one separator character
RECURSIVE Split(_, _)
Split(str, sep) ==
    LET k == IndexOf(str, <<sep>>)
    IN  IF k < 0 THEN <<str>>
        ELSE <<Take(str, k)>> \o Split(Slice(str, k + 1), sep)

\* the value `undefined` of a name destructured past the end of the array
Undefined == <<0 - 1>>

\* const [a, b, c] = array
Field(array, i) == IF i <= Len(array) THEN array[i] ELSE Undefined

IsDigit(c) == c >= 48 /\ c <= 57

RECURSIVE DecValue(_)
DecValue(digits) ==
    IF digits = <<>> THEN 0
    ELSE DecValue(SubSeq(digits, 1, Len(digits) - 1)) * 10
             + (digits[Len(digits)] - 48)

\* parseInt(str, 10): the leading decimal digits, NaN when there are none
ParseInt(str) ==
    IF str = Undefined THEN [nan |-> TRUE, value |-> 0]
    ELSE LET stops == {i \in 1..Len(str) : ~IsDigit(str[i])}
             n == IF stops = {} THEN Len(str)
                  ELSE (CHOOSE i \in stops : \A j \in stops : i <= j) - 1
         IN  IF n = 0 THEN [nan |-> TRUE, value |-> 0]
             ELSE [nan |-> FALSE, value |-> DecValue(Take(str, n))]

\* new URL(str) for a string that starts with http:// or https://: the
\* authority ends at the first '/', the host name at its ':'; an empty host
\* name or a port that is no number throws.  port is 0 for the string '' that
\* URL gives when the port is absent or the default of the scheme.
UrlAuthority(rest) ==
    LET slash == IndexOf(rest, <<47>>)
    IN  IF slash < 0 THEN rest ELSE Take(rest, slash)

UrlHostname(authority) ==
    LET colon == IndexOf(authority, <<58>>)
    IN  IF colon < 0 THEN authority ELSE Take(authority, colon)

UrlPortString(authority) ==
    LET colon == IndexOf(authority, <<58>>)
    IN  IF colon < 0 THEN <<>> ELSE Slice(authority, colon + 1)

UrlPortValid(portStr) == \A i \in 1..Len(portStr) : IsDigit(portStr[i])

UrlPort(portStr, default) ==
    IF portStr = <<>> \/ ~UrlPortValid(portStr) THEN 0
    ELSE IF DecValue(portStr) = default THEN 0
    ELSE DecValue(portStr)

UrlOf(authority, protocol, default) ==
    [ok       |-> UrlHostname(authority) # <<>>
                  /\ UrlPortValid(UrlPortString(authority)),
     protocol |-> protocol,
     hostname |-> UrlHostname(authority),
     port     |-> UrlPort(UrlPortString(authority), default)]

ParseURL(str) ==
    IF IsPrefix(HttpsScheme, str)
    THEN UrlOf(UrlAuthority(Slice(str, Len(HttpsScheme))), "https:", 443)
    ELSE UrlOf(UrlAuthority(Slice(str, Len(HttpScheme))), "http:", 80)

\* clientSocket.write(data)
ClientWrite(h, data) ==
    IF h.clientSocket = "open"
    THEN [h EXCEPT !.clientOut = Append(@, data)]
    ELSE h

\* clientSocket.end(data), data = <<>> for end(): the first call writes the
\* data and half-closes; end(data) on a socket already ended is a write after
\* end, which destroys the socket with an error
ClientEnd(h, data) ==
    IF h.clientSocket = "open"
    THEN [(IF data # <<>> THEN ClientWrite(h, data) ELSE h)
          EXCEPT !.clientSocket = "ended"]
    ELSE IF h.clientSocket = "ended" /\ data # <<>>
    THEN [h EXCEPT !.clientSocket = "destroyed", !.clientErr = TRUE]
    ELSE h

\* clientSocket.destroyed
ClientDestroyed(h) == h.clientSocket \in {"destroyed", "closed"}

\* clientSocket.destroy()
ClientDestroy(h) ==
    IF ClientDestroyed(h) THEN h ELSE [h EXCEPT !.clientSocket = "destroyed"]

\* upstreamSocket.write(data): queued while connecting; a write after end()
\* destroys the socket with an error
HttpUpstreamWrite(h, data) ==
    IF h.upstreamSocket = 0 \/ ~SocketWritable(h.ups[h.upstreamSocket]) THEN h
    ELSE IF h.upEnded
    THEN [h EXCEPT !.ups[h.upstreamSocket].st = "destroyed",
                   !.ups[h.upstreamSocket].err = TRUE]
    ELSE [h EXCEPT !.ups[h.upstreamSocket].out = @ \o data]

\* upstreamSocket = new net.Socket(); upstreamSocket.connect(port, host, cb)
HttpDial(h, host, port, listeners) ==
    [h EXCEPT !.ups = <<NewSocket(host, port, <<>>)>>,
              !.upstreamSocket = 1,
              !.upstreamListeners = listeners]

\* !targetHost || isNaN(targetPort)
rejectConnectTarget(host, port) ==
    host = <<>> \/ host = Undefined \/ port.nan

\* the CONNECT branch of the 'data' handler: the pipes are set up at once
connectBranch(h, targetUrlString) ==
    LET hostPort == Split(targetUrlString, 58)
        host     == Field(hostPort, 1)
        port     == ParseInt(Field(hostPort, 2))
    IN  IF rejectConnectTarget(host, port)
        THEN ClientEnd(h, Resp400)
        ELSE LET h1 == HttpDial(h, host, port.value, "CONNECT")
             IN  [h1 EXCEPT !.clientPipe = TRUE, !.ups[1].piped = 1]

\* faulty variant: any parsed URL passes, whatever its scheme
isHttpProtocol_any(parsedTargetUrl) == TRUE

\* parsedTargetUrl.protocol !== 'http:' refuses the request
isHttpProtocol(parsedTargetUrl) == parsedTargetUrl.protocol = "http:"

\* the non-CONNECT branch of part_001: the target comes from the absolute URI
httpBranchDyn(h, targetUrlString) ==
    IF targetUrlString = Undefined
       \/ ~(IsPrefix(HttpScheme, targetUrlString)
            \/ IsPrefix(HttpsScheme, targetUrlString))
    THEN ClientEnd(h, Resp400Url)
    ELSE LET parsedTargetUrl == ParseURL(targetUrlString)
             dynamicPort ==
                 IF parsedTargetUrl.port # 0 THEN parsedTargetUrl.port
                 ELSE IF parsedTargetUrl.protocol = "https:" THEN 443 ELSE 80
         IN  IF ~parsedTargetUrl.ok THEN ClientEnd(h, Resp400Url)
             ELSE IF ~isHttpProtocol(parsedTargetUrl)
             THEN ClientEnd(h, Resp400Https)
             ELSE HttpDial(h, parsedTargetUrl.hostname, dynamicPort, "HTTP")

\* the non-CONNECT branch of app.js: every request goes to the default target
httpBranchDef(h) ==
    HttpDial(h, DEFAULT_TARGET_TCP_IP, DEFAULT_TARGET_TCP_PORT, "HTTP")

\* clientSocket.on('data')
onClientData(h, data, v) ==
    IF h.upstreamSocket # 0 THEN h
    ELSE LET h1 == [h EXCEPT !.buffer = @ \o data]
             requestStr   == h1.buffer
             firstLineEnd == IndexOf(requestStr, CRLF)
         IN  IF firstLineEnd < 0
             THEN IF Len(h1.buffer) > MaxHeaderBytes
                  THEN [ClientEnd(h1, <<>>) EXCEPT !.hist.tooLarge = TRUE]
                  ELSE h1
             ELSE LET requestLine == Take(requestStr, firstLineEnd)
                      parts  == Split(requestLine, 32)
                      method == Field(parts, 1)
                      targetUrlString == Field(parts, 2)
                  IN  IF method = MethodCONNECT
                      THEN connectBranch(h1, targetUrlString)
                      ELSE IF v = "httpDyn"
                      THEN httpBranchDyn(h1, targetUrlString)
                      ELSE httpBranchDef(h1)

\* the 'data' listener clientSocket.pipe(upstreamSocket) added
pipeClientData(h, data) == HttpUpstreamWrite(h, data)

\* the 'data' listener upstreamSocket.pipe(clientSocket) added; the pipe is
\* undone when the client socket finishes
pipeUpstreamToClient(h, data) ==
    IF h.ups[1].piped > 0 THEN ClientWrite(h, data) ELSE h

\* faulty variant: the tunnel is opened without the 200 response
connectEstablished_silent(h) == h

\* callback of upstreamSocket.connect in the CONNECT branch
connectEstablished(h) == ClientWrite(h, Resp200)

\* callback of upstreamSocket.connect in the non-CONNECT branch
onConnectHttp(h) ==
    LET h1 == HttpUpstreamWrite(h, h.buffer)
    IN  [h1 EXCEPT !.clientPipe = TRUE, !.ups[1].piped = 1, !.buffer = <<>>]

\* faulty variant: a failed dial is not reported to the client
onUpstreamErrorHttp_silent(h) == h

\* upstreamSocket.on('error'), both branches
onUpstreamErrorHttp(h) ==
    IF ~ClientDestroyed(h) THEN ClientEnd(h, Resp502) ELSE h

\* upstreamSocket.on('end'), both branches; the pipe ends the client as well
onUpstreamEndHttp(h) ==
    IF ~ClientDestroyed(h) THEN ClientEnd(h, <<>>) ELSE h

\* upstreamSocket.on('close'), both branches
onUpstreamCloseHttp(h) ==
    IF ~ClientDestroyed(h) THEN ClientDestroy(h) ELSE h

\* clientSocket.on('error') and clientSocket.on('close')
onClientErrorHttp(h) ==
    IF h.upstreamSocket # 0 /\ ~SocketDestroyed(h.ups[1])
    THEN [h EXCEPT !.ups[1].st = "destroyed"]
    ELSE h

onClientCloseHttp(h) ==
    IF h.upstreamSocket # 0 /\ ~SocketDestroyed(h.ups[1])
    THEN [h EXCEPT !.ups[1].st = "destroyed"]
    ELSE h

\* clientSocket.on('end'): upstreamSocket.end()
onClientEndHttp(h) ==
    IF h.upstreamSocket # 0 /\ ~SocketDestroyed(h.ups[1])
    THEN [h EXCEPT !.upEnded = TRUE]
    ELSE h

(***************************************************************************)
(* The HTTP proxy session and its events                                   *)
(***************************************************************************)
CurHttp ==
    [clientSocket |-> clientSocket, clientErr |-> clientErr,
     clientOut |-> clientOut, buffer |-> buffer, clientPipe |-> clientPipe,
     upEnded |-> upEnded, upstreamListeners |-> upstreamListeners,
     upstreamSocket |-> upstreamSocket, ups |-> ups, hist |-> hist]

relayVars ==
    <<workerSocket, workerErr, workerOut, targetHost, targetPort,
      targetInfoReceived, handshakeCompleted, initialDataBuffer, connectTimer,
      workerPipe, relayListeners, pending, closeCode>>

SetHttp(h) ==
    /\ clientSocket' = h.clientSocket
    /\ clientErr' = h.clientErr
    /\ clientOut' = h.clientOut
    /\ buffer' = h.buffer
    /\ clientPipe' = h.clientPipe
    /\ upEnded' = h.upEnded
    /\ upstreamListeners' = h.upstreamListeners
    /\ upstreamSocket' = h.upstreamSocket
    /\ ups' = h.ups
    /\ hist' = h.hist
    /\ UNCHANGED relayVars
    /\ UNCHANGED serverVars
    /\ UNCHANGED flowVars

\* hist: tooLarge (the size check ended the client), firstPiped (offset in
\* the stream of the first byte the pipe wrote to the upstream, 0 = none),
\* dialFailed (the upstream failed while connecting), dialFailOpen (the
\* client socket was open when that failure was handled)
NoHistHttp ==
    [tooLarge |-> FALSE, firstPiped |-> 0, dialFailed |-> FALSE,
     dialFailOpen |-> FALSE]

InitHttp ==
    /\ variant \in {"httpDyn", "httpDef"}
    /\ input \in Requests
    /\ pos = 0
    /\ upSent = 0
    /\ clientSocket = "open"
    /\ clientErr = FALSE
    /\ clientOut = <<>>
    /\ buffer = <<>>
    /\ clientPipe = FALSE
    /\ upEnded = FALSE
    /\ upstreamListeners = "none"
    /\ upstreamSocket = 0
    /\ ups = <<>>
    /\ hist = NoHistHttp
    /\ workerSocket = "none"
    /\ workerErr = FALSE
    /\ workerOut = <<>>
    /\ targetHost = [kind |-> "none", text |-> <<>>]
    /\ targetPort = 0
    /\ targetInfoReceived = FALSE
    /\ handshakeCompleted = FALSE
    /\ initialDataBuffer = <<>>
    /\ connectTimer = "null"
    /\ workerPipe = 0
    /\ relayListeners = 0
    /\ pending = <<>>
    /\ closeCode = 0
    /\ ServerStart

\* the client's bytes delivered so far
Delivered == Pieces(input, 0, pos)

\* a 'data' event of the client socket: the handler, then the pipe's listener
\* when the pipe was set up before this event (a listener added while 'data'
\* is being emitted is not called for that event).  A socket the proxy has
\* ended still reads what the client sends.
ClientData ==
    /\ clientSocket \in {"open", "ended"} /\ pos < Len(input)
    /\ \E n \in 1..MaxCoalesce :
         LET m    == IF pos + n > Len(input) THEN Len(input) ELSE pos + n
             data == Pieces(input, pos, m)
             h1   == onClientData(CurHttp, data, variant)
             h2   == IF clientPipe THEN pipeClientData(h1, data) ELSE h1
             h3   == IF clientPipe /\ hist.firstPiped = 0
                        /\ h2.ups[1].out # ups[1].out
                     THEN [h2 EXCEPT !.hist.firstPiped = Len(Delivered) + 1]
                     ELSE h2
         IN  pos' = m /\ SetHttp(h3)
    /\ UNCHANGED <<variant, input, upSent>>

\* the upstream socket connects
UpstreamConnectHttp ==
    /\ upstreamSocket # 0 /\ ups[1].st = "connecting"
    /\ LET h == [CurHttp EXCEPT !.ups[1].st = "open"]
       IN  IF upstreamListeners = "CONNECT" THEN SetHttp(connectEstablished(h))
           ELSE SetHttp(onConnectHttp(h))
    /\ UNCHANGED <<variant, input, pos, upSent>>

\* the target sends a chunk
UpstreamDataHttp ==
    /\ upstreamSocket # 0 /\ ups[1].st = "open" /\ upSent < MaxUpData
    /\ SetHttp(pipeUpstreamToClient(CurHttp, <<UpByte(upSent)>>))
    /\ upSent' = upSent + 1
    /\ UNCHANGED <<variant, input, pos>>

\* the upstream socket fails: node destroys it, 'error' and 'close' follow
UpstreamErrorHttp ==
    /\ upstreamSocket # 0 /\ ups[1].st \in {"connecting", "open"}
    /\ SetHttp([CurHttp EXCEPT !.ups[1].st = "destroyed", !.ups[1].err = TRUE,
                               !.hist.dialFailed = @ \/ ups[1].st = "connecting"])
    /\ UNCHANGED <<variant, input, pos, upSent>>

\* the target closes its side: 'end' is emitted and the socket, which is not
\* half-open, is destroyed
UpstreamEndHttp ==
    /\ upstreamSocket # 0 /\ ups[1].st = "open"
    /\ SetHttp(onUpstreamEndHttp([CurHttp EXCEPT !.ups[1].st = "destroyed"]))
    /\ UNCHANGED <<variant, input, pos, upSent>>

\* 'error' (when destroyed with an error) and 'close' of the upstream socket
UpstreamEmitCloseHttp ==
    /\ upstreamSocket # 0 /\ ups[1].st = "destroyed"
    /\ LET h0 == [CurHttp EXCEPT !.ups[1].st = "closed", !.ups[1].err = FALSE]
           h1 == IF ups[1].err /\ hist.dialFailed
                 THEN [h0 EXCEPT !.hist.dialFailOpen = (clientSocket = "open")]
                 ELSE h0
           h2 == IF ups[1].err THEN onUpstreamErrorHttp(h1) ELSE h1
       IN  SetHttp(onUpstreamCloseHttp(h2))
    /\ UNCHANGED <<variant, input, pos, upSent>>

\* the client closes its side: 'end' is emitted and the socket, which is not
\* half-open, ends its own side and is destroyed
ClientFin ==
    /\ clientSocket \in {"open", "ended"}
    /\ SetHttp(ClientDestroy(onClientEndHttp(CurHttp)))
    /\ UNCHANGED <<variant, input, pos, upSent>>

\* the client's connection fails: node destroys the socket
ClientError ==
    /\ clientSocket \in {"open", "ended"}
    /\ SetHttp([CurHttp EXCEPT !.clientSocket = "destroyed", !.clientErr = TRUE])
    /\ UNCHANGED <<variant, input, pos, upSent>>

\* 'error' (when destroyed with an error) and 'close' of the client socket
ClientEmitClose ==
    /\ clientSocket = "destroyed"
    /\ LET h0 == [CurHttp EXCEPT !.clientSocket = "closed", !.clientErr = FALSE]
           h1 == IF clientErr THEN onClientErrorHttp(h0) ELSE h0
       IN  SetHttp(onClientCloseHttp(h1))
    /\ UNCHANGED <<variant, input, pos, upSent>>

NextHttp ==
    \/ ClientData
    \/ UpstreamConnectHttp
    \/ UpstreamDataHttp
    \/ UpstreamErrorHttp
    \/ UpstreamEndHttp
    \/ UpstreamEmitCloseHttp
    \/ ClientFin
    \/ ClientError
    \/ ClientEmitClose

SpecHttp == InitHttp /\ [][NextHttp]_vars

(***************************************************************************)
(* Properties                                                              *)
(***************************************************************************)
\* the worker bytes that followed the parsed header, as far as delivered
AfterHeader == hist.leftover \o SubSeq(input, hist.parsedAt + 1, pos)

\* the data of the binary messages input[from..to], concatenated
RECURSIVE BinaryData(_, _)
BinaryData(from, to) ==
    IF from > to THEN <<>>
    ELSE (IF input[from].bin THEN input[from].data ELSE <<>>)
         \o BinaryData(from + 1, to)

\* the header parsed in one piece from the whole input stream
OneShot ==
    IF variant = "v1" THEN ParseTargetV1(input) ELSE ParseTargetV2(input)

\* C1: in the raw-TCP relays the bytes written to the upstream are exactly the
\* worker bytes after the address header, each once and in order: always a
\* prefix of them, and all of them while the upstream is connected.
C1_UpstreamGetsStreamOnce ==
    (IsTcp /\ ups # <<>>) =>
        /\ IsPrefix(ups[1].out, AfterHeader)
        /\ (ups[1].st = "open" => ups[1].out = AfterHeader)

\* C2: in the WebSocket relay an established upstream has been written the
\* leftover and then every binary message that arrived after the header
\* message, each once and in arrival order.
C2_MessagesForwardedOnce ==
    (variant = "ws" /\ Len(ups) = 1 /\ ups[1].st = "open" /\ ups[1].piped > 0) =>
        ups[1].out = hist.leftover \o BinaryData(hist.parsedAt + 1, pos)

\* C3: in the raw-TCP relay v1 whatever has been written to the upstream
\* starts with the leftover of the header chunk.
C3_LeftoverFirstV1 ==
    (variant = "v1" /\ ups # <<>> /\ ups[1].out # <<>>) =>
        IsPrefix(hist.leftover, ups[1].out)

\* C4: every upstream byte forwarded to the worker comes after the success
\* byte 0x00 in the worker's stream.
C4_SuccessBeforeUpstreamData ==
    \A i \in 1..Len(workerOut) :
        IsUpByte(workerOut[i]) =>
            \E j \in 1..(i - 1) : workerOut[j] = StatusSuccess

C4_Witness ==
    /\ Len(workerOut) >= 2
    /\ workerOut[1] = StatusSuccess
    /\ IsUpByte(workerOut[2])

\* C5: in the relays that close through cleanup() (ws, v2) the failure byte
\* 0x01 is written at most once, and no step taken with handshakeCompleted
\* set writes it.
C5_FailureOnceBeforeRelaying ==
    [][(variant \in {"ws", "v2"}) =>
           (Count(workerOut', StatusFailure) <= 1 /\
            (handshakeCompleted =>
               Count(workerOut', StatusFailure) = Count(workerOut, StatusFailure)))]_vars

C5_Witness ==
    /\ variant = "v2" /\ hist.lateError
    /\ workerOut = <<StatusSuccess>>
    /\ workerSocket = "closed"

\* C6: in the raw-TCP relay v1 no 0x01 follows a 0x00 in the worker's stream.
C6_NoFailureAfterSuccessV1 ==
    variant = "v1" =>
        \A i, j \in 1..Len(workerOut) :
            (i < j /\ workerOut[i] = StatusSuccess) => workerOut[j] # StatusFailure

\* C7: in the raw-TCP relay v2, once an upstream failure while dialing has
\* been handled, the worker has never been sent 0x00, has been sent 0x01 if
\* its socket was open, and both sockets are destroyed.
C7_DialFailureV2 ==
    (variant = "v2" /\ hist.dialFailed) =>
        /\ Count(workerOut, StatusSuccess) = 0
        /\ ~handshakeCompleted
        /\ ups[1].st = "closed" =>
              /\ workerSocket \in {"destroyed", "closed"}
              /\ hist.dialFailOpen => workerOut = <<StatusFailure>>

C7_Witness ==
    /\ variant = "v2" /\ hist.dialFailed /\ hist.dialFailOpen
    /\ ups[1].st = "closed"
    /\ workerOut = <<StatusFailure>>

\* C8: in the raw-TCP relays a first byte that is no valid ATYP fails the
\* session: the worker has been sent exactly 0x01, its socket is destroyed
\* and no upstream socket was ever created.
C8_InvalidAtypFails ==
    (IsTcp /\ pos >= 1 /\ ~(input[1] \in {1, 2, 3})) =>
        /\ workerOut = <<StatusFailure>>
        /\ workerSocket \in {"destroyed", "closed"}
        /\ ups = <<>>

C8_Witness ==
    /\ variant = "v1" /\ pos >= 1 /\ input[1] = 4
    /\ workerOut = <<StatusFailure>>
    /\ workerSocket = "closed"

\* C9: in the WebSocket relay, once the header parser has reported an error
\* or the first message was not binary, the worker has been sent 0x01 exactly
\* once, the WebSocket is no longer open and no upstream socket exists.
C9_BadHeaderNeverDials ==
    (variant = "ws" /\ (hist.parseErr \/ (pos >= 1 /\ ~input[1].bin))) =>
        /\ Count(workerOut, StatusFailure) = 1
        /\ workerSocket # "OPEN"
        /\ ups = <<>>

\* C10: in the raw-TCP relays the outcome is that of parsing the whole stream
\* in one piece, whatever the chunks: the same target and header length once
\* the header has arrived, a failure as soon as the refused byte has arrived,
\* and neither while the stream is a proper prefix of a header.
C10_FragmentationIndependent ==
    IsTcp =>
        /\ targetInfoReceived =>
              /\ OneShot.kind = "ok"
              /\ targetHost = OneShot.host /\ targetPort = OneShot.port
              /\ ups[1].host = OneShot.host /\ ups[1].port = OneShot.port
              /\ hist.parsedAt >= OneShot.consumed
              /\ hist.leftover = SubSeq(input, OneShot.consumed + 1, hist.parsedAt)
        /\ (OneShot.kind = "ok" /\ pos >= OneShot.consumed) => targetInfoReceived
        /\ hist.failAt > 0 => OneShot.kind = "fail"
        /\ (OneShot.kind = "fail" /\ pos >= 1) => (hist.failAt > 0 /\ ups = <<>>)
        /\ OneShot.kind = "wait" => (ups = <<>> /\ hist.failAt = 0)

C10_Witness ==
    /\ IsTcp /\ targetInfoReceived
    /\ hist.parsedAt > MaxChunk
    /\ hist.leftover # <<>>
    /\ Len(input) > hist.parsedAt

\* C11: in the WebSocket relay a first message that holds only a prefix of the
\* Trojan header leaves the session waiting (the parser reports no error and
\* no failure byte is sent), and once the rest has arrived in a second message
\* and been parsed the session has dialed the target of the whole header with
\* its leftover.
C11_SplitHeaderAccumulated ==
    (variant = "ws" /\ input = <<MsgPart1, MsgPart2>> /\ pos >= 1) =>
        /\ ~hist.parseErr
        /\ (pos = 2 /\ pending = <<>> /\ connectTimer = "armed") =>
              /\ Len(ups) = 1
              /\ ups[1].host = parseTrojanHeader(MsgGood.data).addressRemote
              /\ ups[1].port = parseTrojanHeader(MsgGood.data).portRemote
              /\ hist.leftover = parseTrojanHeader(MsgGood.data).rawClientData

\* the raw-TCP header layout: ATYP 1 = 4 address bytes, ATYP 2 = length L and
\* L name bytes, ATYP 3 = 16 bytes read as eight big-endian groups at offsets
\* base + 2k; then a big-endian port
HeaderLength(b) ==
    IF b[1] = 1 THEN 7 ELSE IF b[1] = 2 THEN 4 + b[2] ELSE 19

HeaderHost(b) ==
    IF b[1] = 1 THEN [kind |-> "ipv4", text |-> SubSeq(b, 2, 5)]
    ELSE IF b[1] = 2
    THEN [kind |-> "domain",
          text |-> [i \in 1..b[2] |-> IF b[2 + i] < 128 THEN b[2 + i] ELSE 65533]]
    ELSE [kind |-> "ipv6",
          text |-> [k \in 1..8 |-> Hex(b[2 * k] * 256 + b[2 * k + 1])]]

HeaderPort(b) == b[HeaderLength(b) - 1] * 256 + b[HeaderLength(b)]

\* C12: in the raw-TCP relays the session dials the target the header layout
\* gives (host by ATYP, big-endian port), consumes exactly 7, 4+L or 19 bytes
\* and keeps the rest of the buffer as leftover; v1 and v2 decode every buffer
\* alike.
C12_HeaderDecoded ==
    IsTcp =>
        /\ ParseTargetV1(input) = ParseTargetV2(input)
        /\ targetInfoReceived =>
              /\ input[1] \in {1, 2, 3}
              /\ Len(ups) = 1
              /\ ups[1].host = HeaderHost(input)
              /\ ups[1].port = HeaderPort(input)
              /\ targetHost = HeaderHost(input) /\ targetPort = HeaderPort(input)
              /\ hist.parsedAt >= HeaderLength(input)
              /\ hist.leftover =
                     SubSeq(input, HeaderLength(input) + 1, hist.parsedAt)

C12_Witness ==
    /\ variant = "v2" /\ targetInfoReceived
    /\ input[1] = 3 /\ ups[1].host.kind = "ipv6"
    /\ ups[1].host.text[1] = <<2, 0, 0, 1>> /\ ups[1].host.text[2] = <<13, 11, 8>>
    /\ ups[1].port = 80
    /\ hist.leftover # <<>>

\* C13: every upstream socket of the raw-TCP relays was dialed with a port in
\* 1..65535 and, for a domain target, a name of 1..255 characters.
C13_DialedTargetValid ==
    IsTcp =>
        \A i \in 1..Len(ups) :
            /\ ups[i].port \in 1..65535
            /\ ups[i].host.kind = "domain" => Len(ups[i].host.text) \in 1..255

IsHttp == variant \in {"httpDyn", "httpDef"}

\* the length of the request: the request line and the headers with the empty
\* line that ends them
RequestLength == IndexOf(Pieces(input, 0, Len(input)), CRLF \o CRLF) + 4

\* a write to the client that is a chunk of the target
IsUpChunk(w) == Len(w) = 1 /\ IsUpByte(w[1])

\* C14: in the HTTP proxy, for a CONNECT request, whatever was written to the
\* upstream starts past the end of the request.
C14_ConnectRequestNotForwarded ==
    (IsHttp /\ input \in {ReqConnect, ReqConnectSplit} /\ ups # <<>>) =>
        /\ ups[1].out # <<>> => hist.firstPiped > RequestLength
        /\ hist.firstPiped = 0 => ups[1].out = <<>>

\* C15: in the HTTP proxy, for a CONNECT request, the 200 response is written
\* to the client at most once, only by the step in which the upstream
\* connects, by every such step that finds the client open, and ahead of
\* every chunk of the target.
C15_EstablishedOnceAfterConnect ==
    [][(IsHttp /\ upstreamListeners' = "CONNECT") =>
          /\ Count(clientOut', Resp200) <= 1
          /\ Count(clientOut', Resp200) > Count(clientOut, Resp200) =>
                (ups[1].st = "connecting" /\ ups'[1].st = "open")
          /\ (ups # <<>> /\ ups[1].st = "connecting" /\ ups'[1].st = "open"
                /\ clientSocket = "open") =>
                clientOut' = Append(clientOut, Resp200)
          /\ \A i \in 1..Len(clientOut') :
                IsUpChunk(clientOut'[i]) =>
                    \E j \in 1..(i - 1) : clientOut'[j] = Resp200]_vars

C15_Witness ==
    /\ IsHttp /\ input = ReqConnect /\ upstreamListeners = "CONNECT"
    /\ clientOut = <<Resp200, <<UpByte(0)>>>>

\* C16: in the HTTP proxy of part_001, for a request with an absolute http://
\* URI, a connected upstream has been written exactly the bytes the client
\* has sent so far.
C16_HttpRequestRelayed ==
    (variant = "httpDyn" /\ input \in {ReqGet, ReqGetPort}
       /\ ups # <<>> /\ ups[1].st = "open") =>
        ups[1].out = Delivered

\* C17: in the HTTP proxy of part_001, once the request line of a non-CONNECT
\* request whose target is an https:// URI, a relative path or an unparsable
\* URL has arrived, the client has been written one response, a 400 Bad
\* Request, its socket is no longer open and no upstream socket exists.
C17_NonHttpTargetRejected ==
    (variant = "httpDyn" /\ input \in {ReqHttps, ReqRelative, ReqBadUrl}
       /\ pos >= 1) =>
        /\ ups = <<>> /\ upstreamSocket = 0
        /\ clientSocket # "open"
        /\ Len(clientOut) = 1
        /\ IsPrefix(Take(Resp400, Len(Resp400) - 4), clientOut[1])

C17_Witness ==
    /\ variant = "httpDyn" /\ input = ReqHttps /\ pos = 2
    /\ clientOut = <<Resp400Https>>
    /\ clientSocket = "closed"

\* C18: in the HTTP proxy, once the size check has failed the session, the
\* client socket is no longer open and no upstream socket is ever created.
C18_TooLargeNeverDials ==
    (IsHttp /\ hist.tooLarge) =>
        /\ clientSocket # "open"
        /\ ups = <<>> /\ upstreamSocket = 0

\* C19: in the HTTP proxy, when the upstream of a CONNECT request has failed
\* while connecting, the client is never written the 200 response, and once
\* the failure is handled the client socket is destroyed and a client that was
\* open has been written exactly the 502 response.
C19_ConnectDialFailure ==
    (IsHttp /\ upstreamListeners = "CONNECT" /\ hist.dialFailed) =>
        /\ Count(clientOut, Resp200) = 0
        /\ ups[1].st = "closed" =>
              /\ ClientDestroyed(CurHttp)
              /\ hist.dialFailOpen => clientOut = <<Resp502>>

C19_Witness ==
    /\ IsHttp /\ input = ReqConnect /\ upstreamListeners = "CONNECT"
    /\ hist.dialFailed /\ hist.dialFailOpen
    /\ ups[1].st = "closed"
    /\ clientOut = <<Resp502>>

\* C20: in the raw-TCP relay v2 the handshake timer is armed at accept; when it
\* fires the session is not relaying, the failure byte is written if the
\* worker socket is open, and both sockets are destroyed; a relaying session
\* has no timer armed.
C20_HandshakeTimerV2 ==
    [][(variant = "v2") =>
          /\ (connectTimer = "armed" /\ connectTimer' = "fired") =>
                /\ ~handshakeCompleted /\ ~handshakeCompleted'
                /\ workerSocket' \in {"destroyed", "closed"}
                /\ workerSocket = "open" =>
                       workerOut' = Append(workerOut, StatusFailure)
                /\ workerSocket # "open" => workerOut' = workerOut
                /\ \A i \in 1..Len(ups') : SocketDestroyed(ups'[i])
          /\ connectTimer' = "armed" => connectTimer = "armed"
          /\ handshakeCompleted' => connectTimer' \notin {"armed", "fired"}
          /\ (~handshakeCompleted /\ handshakeCompleted') =>
                connectTimer = "armed"]_vars

C20_Witness ==
    /\ variant = "v2" /\ connectTimer = "fired"
    /\ Len(ups) = 1 /\ SocketDestroyed(ups[1])
    /\ workerOut = <<StatusFailure>>
    /\ workerSocket = "closed"

\* C21: in the raw-TCP relay v2, when the upstream socket closes after a clean
\* EOF of the target while the worker socket is open, the worker socket stays
\* open: its direction goes on until the worker ends it.
C21_DrainAfterUpstreamEof ==
    [][(variant = "v2" /\ hist.upEof /\ workerSocket = "open"
          /\ ups # <<>> /\ ups[1].st = "destroyed" /\ ups'[1].st = "closed") =>
          workerSocket' = "open"]_vars

\* C22: in the WebSocket relay a step in which the relay closes the open
\* WebSocket carries the code 1011 if the handshake never completed and a
\* normal closure (1000, or no status: 1005) otherwise.
C22_CloseCodeByHandshake ==
    [][(variant = "ws" /\ workerSocket = "OPEN" /\ workerSocket' = "CLOSING"
          /\ ~workerErr') =>
          IF handshakeCompleted' THEN closeCode' \in {1000, 1005}
          ELSE closeCode' = 1011]_vars

\* C27: in the WebSocket relay a session creates at most one upstream socket
\* and enters relaying at most once.
C27_OneConnectWS ==
    variant = "ws" => (Len(ups) <= 1 /\ relayListeners <= 1)

\* C29: in the WebSocket relay and the raw-TCP relay v2, in every state reached
\* after cleanup has run, a further cleanup, with or without an error message,
\* changes nothing: no byte to the worker, no socket state, no timer state.
C29_CleanupIdempotent ==
    (variant \in {"ws", "v2"} /\ hist.cleaned) =>
        \A errorMessage \in BOOLEAN :
            LET again == IF variant = "ws" THEN cleanupWS(Cur, errorMessage)
                         ELSE cleanupV2(Cur, errorMessage)
            IN  [again EXCEPT !.hist = hist] = Cur

(***************************************************************************)
(* The raw-TCP relay v2 alone, with the scheduling Node guarantees: a      *)
(* destroyed socket emits 'close' on a later tick (net.Socket destroy ->   *)
(* process.nextTick emit 'close').  No other event is forced to happen.    *)
(***************************************************************************)
\* the streams of the liveness check: a valid and an invalid header, each cut
\* inside the header and complete with the payload
LiveStreams ==
    {Take(h \o Payload, n) : h \in {HdrIPv4, HdrBad0},
                             n \in {2, Len(HdrIPv4) + MaxPayload}}

InitV2 == Init /\ variant = "v2" /\ input \in LiveStreams

NextV2 ==
    \/ WorkerData
    \/ \E i \in 1..Len(ups) : UpstreamConnect(i)
    \/ \E i \in 1..Len(ups) : UpstreamData(i)
    \/ \E i \in 1..Len(ups) : UpstreamError(i)
    \/ \E i \in 1..Len(ups) : UpstreamEnd(i)
    \/ \E i \in 1..Len(ups) : UpstreamEmitClose(i)
    \/ \E i \in 1..Len(ups) : UpstreamTimeout(i)
    \/ WorkerError
    \/ WorkerEnd
    \/ WorkerEmitClose
    \/ WorkerTimeout
    \/ ConnectTimerFire

SpecV2Live ==
    /\ InitV2 /\ [][NextV2]_vars
    /\ WF_vars(WorkerEmitClose)
    /\ WF_vars(\E i \in 1..Len(ups) : UpstreamEmitClose(i))

\* a terminating event has occurred: error, end, close or timeout on either
\* socket, or the connect timer fired
Terminating ==
    \/ workerSocket # "open"
    \/ \E i \in 1..Len(ups) : SocketDestroyed(ups[i])
    \/ connectTimer = "fired"
    \/ hist.cleaned

\* worker socket destroyed, every upstream socket created destroyed, connect
\* timer not armed
AllDown ==
    /\ workerSocket \in {"destroyed", "closed"}
    /\ \A i \in 1..Len(ups) : SocketDestroyed(ups[i])
    /\ connectTimer # "armed"

\* C28: in the raw-TCP relay v2, once a terminating event has occurred the
\* session eventually reaches, and from then on stays in, a state where the
\* worker socket and the upstream socket (if created) are destroyed and the
\* connect timer is not armed.
C28_EventuallyAllDown == Terminating ~> []AllDown

\* the target closed its side, the upstream 'close' tore the worker down, and
\* both sockets have emitted 'close'
C28_Witness ==
    /\ variant = "v2" /\ hist.upEof /\ ups # <<>> /\ ups[1].st = "closed"
    /\ workerSocket = "closed" /\ connectTimer = "null"

(***************************************************************************)
(* One session of any of the servers: a relay session or an HTTP proxy     *)
(* session.                                                                *)
(***************************************************************************)
InitAny == Init \/ InitHttp

NextAny ==
    \/ ~IsHttp /\ Next
    \/ IsHttp /\ NextHttp

SpecAny == InitAny /\ [][NextAny]_vars

\* the bytes received so far are a proper prefix of a header the relay's
\* parser accepts
HeaderPrefixTcp ==
    /\ IsTcp /\ pos <= Len(input)
    /\ \E h \in Headers :
          /\ (IF variant = "v2" THEN ParseTargetV2(h) ELSE ParseTargetV1(h)).kind
                = "ok"
          /\ pos < Len(h)
          /\ Take(input, pos) = Take(h, pos)

\* the bytes received so far hold no CRLF yet, more of the request is to come,
\* and they are within the size limit
HeaderPrefixHttp ==
    /\ IsHttp /\ pos < Len(input)
    /\ IndexOf(Delivered, CRLF) < 0
    /\ Len(Delivered) <= MaxHeaderBytes

\* C30: in the raw-TCP relays and the HTTP proxy, while the inbound bytes are
\* only a proper prefix of a valid header and no error, close or timeout has
\* occurred, the session waits: no upstream socket exists, nothing has been
\* written to the client, and the handshake buffer holds exactly the bytes
\* received.
C30_PartialHeaderWaits ==
    /\ (HeaderPrefixTcp /\ workerSocket = "open" /\ connectTimer = "armed") =>
          /\ ups = <<>> /\ upstreamSocket = 0
          /\ workerOut = <<>>
          /\ ~targetInfoReceived
          /\ initialDataBuffer = Take(input, pos)
    /\ (HeaderPrefixHttp /\ clientSocket = "open") =>
          /\ ups = <<>> /\ upstreamSocket = 0
          /\ clientOut = <<>>
          /\ buffer = Delivered

\* a raw-TCP session that has received two chunks of a header, still incomplete
C30_Witness ==
    /\ HeaderPrefixTcp /\ workerSocket = "open" /\ connectTimer = "armed"
    /\ pos > MaxChunk
    /\ initialDataBuffer = Take(input, pos)

(***************************************************************************)
(* UDP forwarder (src/unnamed/part_001 168-203; the same code in           *)
(* src/app.js 533-574 and 660-704).  Time is Date.now() in milliseconds    *)
(* and advances in steps of the cleaning interval.                         *)
(***************************************************************************)
MaxDatagrams == 2   \* 'message' events of one run
MaxTicks     == 7   \* clock steps of one run

TARGET_UDP_IP   == "1.0.0.5"
TARGET_UDP_PORT == 443
UDP_CLIENT_TIMEOUT_MS == 5 * 60 * 1000
ReaperIntervalMs == 60 * 1000
TickMs == ReaperIntervalMs

\* the senders of datagrams: two clients behind one address, and the target
\* itself, whose replies arrive on the same socket
Sources ==
    {[address |-> "10.0.0.9", port |-> 5000],
     [address |-> "10.0.0.9", port |-> 5001],
     [address |-> TARGET_UDP_IP, port |-> TARGET_UDP_PORT]}

Datagrams == {<<7>>, <<7, 8>>}

\* `${rinfo.address}:${rinfo.port}`: an IPv4 address holds no ':', so the
\* string determines the pair and the pair the string
clientKey(rinfo) == <<rinfo.address, rinfo.port>>

\* Map.prototype.set
MapSet(map, key, value) ==
    [k \in (DOMAIN map) \cup {key} |-> IF k = key THEN value ELSE map[k]]

\* udpProxyServer.send(msg, offset, length, port, address)
udpSend(sent, msg, offset, length, port, address) ==
    Append(sent, [data |-> SubSeq(msg, offset + 1, offset + length),
                  port |-> port, address |-> address])

\* faulty variant of onUdpMessage: a known client keeps its first lastSeen
onUdpMessage_firstSeen(u, msg, rinfo, now) ==
    [udpClientMap |->
         IF clientKey(rinfo) \in DOMAIN u.udpClientMap THEN u.udpClientMap
         ELSE MapSet(u.udpClientMap, clientKey(rinfo),
                     [address |-> rinfo.address, port |-> rinfo.port,
                      lastSeen |-> now]),
     udpSent |-> udpSend(u.udpSent, msg, 0, Len(msg), TARGET_UDP_PORT,
                         TARGET_UDP_IP)]

\* faulty variant of onUdpMessage: a datagram of the target is returned to a
\* recorded client instead of being recorded and forwarded
onUdpMessage_reply(u, msg, rinfo, now) ==
    LET fromTarget == rinfo.address = TARGET_UDP_IP /\ rinfo.port = TARGET_UDP_PORT
        clients == {k \in DOMAIN u.udpClientMap : k # clientKey(rinfo)}
    IN  IF fromTarget /\ clients # {}
        THEN LET c == u.udpClientMap[CHOOSE k \in clients : TRUE]
             IN  [udpClientMap |-> u.udpClientMap,
                  udpSent |-> udpSend(u.udpSent, msg, 0, Len(msg), c.port,
                                      c.address)]
        ELSE [udpClientMap |->
                  MapSet(u.udpClientMap, clientKey(rinfo),
                         [address |-> rinfo.address, port |-> rinfo.port,
                          lastSeen |-> now]),
              udpSent |-> udpSend(u.udpSent, msg, 0, Len(msg), TARGET_UDP_PORT,
                                  TARGET_UDP_IP)]

\* udpProxyServer.on('message')
onUdpMessage(u, msg, rinfo, now) ==
    [udpClientMap |->
         MapSet(u.udpClientMap, clientKey(rinfo),
                [address |-> rinfo.address, port |-> rinfo.port,
                 lastSeen |-> now]),
     udpSent |-> udpSend(u.udpSent, msg, 0, Len(msg), TARGET_UDP_PORT,
                         TARGET_UDP_IP)]

\* faulty variant of reapExpired: an entry is deleted at the limit already
reapExpired_atLimit(map, now) ==
    [k \in {x \in DOMAIN map : ~(now - map[x].lastSeen >= UDP_CLIENT_TIMEOUT_MS)}
        |-> map[k]]

\* the setInterval callback: delete every entry older than the limit
reapExpired(map, now) ==
    [k \in {x \in DOMAIN map : ~(now - map[x].lastSeen > UDP_CLIENT_TIMEOUT_MS)}
        |-> map[k]]

\* the session variables, which the listeners of the process never touch
sessionVars ==
    <<input, pos, upSent, upstreamSocket, ups, hist, relayVars, httpVars,
      flowVars>>

NoSession ==
    /\ input = <<>> /\ pos = 0 /\ upSent = 0
    /\ upstreamSocket = 0 /\ ups = <<>> /\ hist = NoHistHttp
    /\ workerSocket = "none" /\ workerErr = FALSE /\ workerOut = <<>>
    /\ targetHost = [kind |-> "none", text |-> <<>>] /\ targetPort = 0
    /\ targetInfoReceived = FALSE /\ handshakeCompleted = FALSE
    /\ initialDataBuffer = <<>> /\ connectTimer = "null" /\ workerPipe = 0
    /\ relayListeners = 0 /\ pending = <<>> /\ closeCode = 0
    /\ clientSocket = "none" /\ clientErr = FALSE /\ clientOut = <<>>
    /\ buffer = <<>> /\ clientPipe = FALSE /\ upEnded = FALSE
    /\ upstreamListeners = "none"

shutdownVars ==
    <<tcpServer, conn, openAtSignal, tcpClosed, udpClosed, exitTimer,
      processExit>>

InitUdp == variant = "udp" /\ NoSession /\ ServerStart

\* a datagram arrives on the bound socket
UdpMessage ==
    /\ udpSocket = "bound" /\ Len(udpRecv) < MaxDatagrams
    /\ \E rinfo \in Sources, msg \in Datagrams :
          LET u == onUdpMessage([udpClientMap |-> udpClientMap,
                                 udpSent |-> udpSent], msg, rinfo, clock)
          IN  /\ udpClientMap' = u.udpClientMap
              /\ udpSent' = u.udpSent
              /\ udpRecv' = Append(udpRecv, [msg |-> msg, rinfo |-> rinfo])
    /\ UNCHANGED <<variant, clock, reapedAt, udpSocket, shutdownVars, sessionVars>>

\* time passes
Tick ==
    /\ clock < MaxTicks * TickMs
    /\ clock' = clock + TickMs
    /\ UNCHANGED <<variant, udpClientMap, udpSent, udpRecv, reapedAt, udpSocket,
                   shutdownVars, sessionVars>>

\* the interval timer fires, on time or late
Reap ==
    /\ clock - reapedAt >= ReaperIntervalMs
    /\ udpClientMap' = reapExpired(udpClientMap, clock)
    /\ reapedAt' = clock
    /\ UNCHANGED <<variant, udpSent, udpRecv, clock, udpSocket, shutdownVars,
                   sessionVars>>

\* udpProxyServer.on('error'): the handler closes the socket
UdpError ==
    /\ udpSocket = "bound"
    /\ udpSocket' = "closed"
    /\ UNCHANGED <<variant, udpClientMap, udpSent, udpRecv, clock, reapedAt,
                   shutdownVars, sessionVars>>

NextUdp ==
    \/ UdpMessage
    \/ Tick
    \/ Reap
    \/ UdpError

SpecUdp == InitUdp /\ [][NextUdp]_vars

\* C23: every step in which a datagram arrives from a source appends to the
\* sends exactly that datagram, unchanged, addressed to the upstream target,
\* and leaves the routing map with the entry of that source holding the
\* current time as lastSeen and every other entry as it was; nothing is sent
\* in any other step.
C23_DatagramForwarded ==
    [][/\ Len(udpRecv') = Len(udpRecv) + 1 =>
            LET d == udpRecv'[Len(udpRecv')]
                key == clientKey(d.rinfo)
            IN  /\ udpSent' = Append(udpSent, [data |-> d.msg,
                                               port |-> TARGET_UDP_PORT,
                                               address |-> TARGET_UDP_IP])
                /\ DOMAIN udpClientMap' = (DOMAIN udpClientMap) \cup {key}
                /\ udpClientMap'[key] = [address |-> d.rinfo.address,
                                         port |-> d.rinfo.port,
                                         lastSeen |-> clock]
                /\ \A k \in DOMAIN udpClientMap :
                       k # key => udpClientMap'[k] = udpClientMap[k]
       /\ udpSent' # udpSent => Len(udpRecv') = Len(udpRecv) + 1]_vars

\* a source that sent twice, the second time later, holds the later time
C23_Witness ==
    /\ Len(udpRecv) = 2 /\ udpRecv[1].rinfo = udpRecv[2].rinfo
    /\ Len(udpSent) = 2
    /\ clock > 0
    /\ clientKey(udpRecv[2].rinfo) \in DOMAIN udpClientMap
    /\ udpClientMap[clientKey(udpRecv[2].rinfo)].lastSeen = clock

\* C24: a pass of the reaper keeps exactly the entries whose age is at most
\* UDP_CLIENT_TIMEOUT_MS, unchanged, and no other step removes an entry.
C24_ReaperPass ==
    [][/\ reapedAt' # reapedAt =>
            /\ DOMAIN udpClientMap' =
                  {k \in DOMAIN udpClientMap :
                       clock - udpClientMap[k].lastSeen <= UDP_CLIENT_TIMEOUT_MS}
            /\ \A k \in DOMAIN udpClientMap' : udpClientMap'[k] = udpClientMap[k]
       /\ reapedAt' = reapedAt => DOMAIN udpClientMap \subseteq DOMAIN udpClientMap']_vars

\* right after a pass: one entry exactly at the limit was kept and the entry
\* of another source, older than the limit, is gone
C24_Witness ==
    /\ reapedAt = clock
    /\ Len(udpRecv) = 2 /\ udpRecv[1].rinfo # udpRecv[2].rinfo
    /\ clientKey(udpRecv[1].rinfo) \notin DOMAIN udpClientMap
    /\ clientKey(udpRecv[2].rinfo) \in DOMAIN udpClientMap
    /\ clock - udpClientMap[clientKey(udpRecv[2].rinfo)].lastSeen
          = UDP_CLIENT_TIMEOUT_MS

(***************************************************************************)
(* Shutdown on SIGINT: the dynamic-target proxy (src/unnamed/part_001      *)
(* 225-255, "httpDyn"), the default-target proxy (src/app.js 584-602,      *)
(* "httpDef") and the fixed forwarder (src/app.js 722-737, "fwd").  A TCP  *)
(* connection is a session that is open until its two peers have ended    *)
(* it; server.close() stops the listener and calls back once no connection *)
(* is left, it closes none.                                                *)
(***************************************************************************)
CurProc ==
    [tcpServer |-> tcpServer, udpSocket |-> udpSocket, tcpClosed |-> tcpClosed,
     udpClosed |-> udpClosed, exitTimer |-> exitTimer,
     processExit |-> processExit]

SetProc(p) ==
    /\ tcpServer' = p.tcpServer
    /\ udpSocket' = p.udpSocket
    /\ tcpClosed' = p.tcpClosed
    /\ udpClosed' = p.udpClosed
    /\ exitTimer' = p.exitTimer
    /\ processExit' = p.processExit
    /\ UNCHANGED <<variant, udpClientMap, udpSent, udpRecv, clock, reapedAt,
                   sessionVars>>

\* process.exit(code); an uncaught exception ends the process with code 1
exit(p, code) == [p EXCEPT !.processExit = [done |-> TRUE, code |-> code]]

\* tryExit of part_001
tryExit(p) == IF p.tcpClosed /\ p.udpClosed THEN exit(p, 0) ELSE p

\* process.on('SIGINT'): tcpProxyServer.close(cb), udpProxyServer.close(cb),
\* which throws on a socket that is not running, setTimeout(exit 1, 5000)
onSigint(p) ==
    LET p1 == [p EXCEPT !.tcpServer = IF @ = "listening" THEN "closing" ELSE @]
    IN  IF p1.udpSocket # "bound" THEN exit(p1, 1)
        ELSE [p1 EXCEPT !.udpSocket = "closing", !.exitTimer = "armed"]

\* the callback given to tcpProxyServer.close
onTcpClosed(p, v) ==
    LET p1 == [p EXCEPT !.tcpServer = "closed", !.tcpClosed = TRUE]
    IN  IF v = "httpDyn" THEN tryExit(p1) ELSE p1

\* the callback given to udpProxyServer.close
onUdpClosed(p, v) ==
    LET p1 == [p EXCEPT !.udpSocket = "closed", !.udpClosed = TRUE]
    IN  IF v = "httpDyn" THEN tryExit(p1) ELSE exit(p1, 0)

\* faulty variant of onExitTimer: the timer callback does not exit
onExitTimer_noExit(p) == [p EXCEPT !.exitTimer = "fired"]

\* the callback of the 5 s timer
onExitTimer(p) == exit([p EXCEPT !.exitTimer = "fired"], 1)

Running == ~processExit.done

InitShutdown ==
    /\ variant \in {"httpDyn", "httpDef", "fwd"}
    /\ NoSession /\ ServerStart

\* the listener accepts a connection
Accept(c) ==
    /\ Running /\ tcpServer = "listening" /\ conn[c] = "none"
    /\ conn' = [conn EXCEPT ![c] = "open"]
    /\ UNCHANGED <<openAtSignal>>
    /\ SetProc(CurProc)

\* a session ends: both of its sockets have closed
ConnectionEnd(c) ==
    /\ Running /\ conn[c] = "open"
    /\ conn' = [conn EXCEPT ![c] = "closed"]
    /\ UNCHANGED <<openAtSignal>>
    /\ SetProc(CurProc)

\* the UDP socket fails before any signal: its 'error' handler closes it
UdpErrorProc ==
    /\ Running /\ udpSocket = "bound" /\ exitTimer = "none"
    /\ SetProc([CurProc EXCEPT !.udpSocket = "closed"])
    /\ UNCHANGED <<conn, openAtSignal>>

Sigint ==
    /\ Running
    /\ SetProc(onSigint(CurProc))
    /\ openAtSignal' = IF exitTimer = "none"
                       THEN {c \in 1..MaxConns : conn[c] = "open"}
                       ELSE openAtSignal
    /\ UNCHANGED <<conn>>

\* the listener has stopped and no connection is left
TcpCloseCallback ==
    /\ Running /\ tcpServer = "closing"
    /\ \A c \in 1..MaxConns : conn[c] # "open"
    /\ SetProc(onTcpClosed(CurProc, variant))
    /\ UNCHANGED <<conn, openAtSignal>>

\* the UDP socket emits 'close'
UdpCloseCallback ==
    /\ Running /\ udpSocket = "closing"
    /\ SetProc(onUdpClosed(CurProc, variant))
    /\ UNCHANGED <<conn, openAtSignal>>

ExitTimerFire ==
    /\ Running /\ exitTimer = "armed"
    /\ SetProc(onExitTimer(CurProc))
    /\ UNCHANGED <<conn, openAtSignal>>

NextShutdown ==
    \/ \E c \in 1..MaxConns : Accept(c)
    \/ \E c \in 1..MaxConns : ConnectionEnd(c)
    \/ UdpErrorProc
    \/ Sigint
    \/ TcpCloseCallback
    \/ UdpCloseCallback
    \/ ExitTimerFire

SpecShutdown == InitShutdown /\ [][NextShutdown]_vars

\* C25: after SIGINT no connection is accepted, and when the process has
\* exited every session that was open at the signal is closed.
C25_SessionsClosedBeforeExit ==
    /\ exitTimer # "none" => tcpServer # "listening"
    /\ processExit.done => \A c \in openAtSignal : conn[c] = "closed"

\* C26: an exit with code 0 happens only with the TCP listener closed, all
\* its connections ended, the UDP socket closed and the grace timer not
\* fired; an exit with code 1 happens only when the grace timer fired.
C26_ExitCode ==
    processExit.done =>
        IF processExit.code = 0
        THEN /\ tcpClosed /\ udpClosed /\ exitTimer = "armed"
             /\ \A c \in 1..MaxConns : conn[c] # "open"
        ELSE exitTimer = "fired"

\* C31: in the WebSocket relay and the raw-TCP relay v2, handshakeCompleted
\* implies that the upstream socket the session holds exists and is past
\* connecting, and that the success byte has been sent to the worker.
C31_HandshakeCompletedMeans ==
    (variant \in {"ws", "v2"} /\ handshakeCompleted) =>
        /\ upstreamSocket # 0
        /\ ups[upstreamSocket].st # "connecting"
        /\ Count(workerOut, StatusSuccess) >= 1

\* C32: in the WebSocket relay, once cleanup has run no write is made or
\* attempted on an upstream socket, and no step after it adds a byte to the
\* worker's or an upstream socket's output.
C32_SilentAfterCleanup ==
    /\ [](variant = "ws" => ~hist.lateWrite)
    /\ [][(variant = "ws" /\ hist.cleaned) =>
             /\ workerOut' = workerOut
             /\ \A i \in 1..Len(ups) : ups'[i].out = ups[i].out]_vars

(***************************************************************************)
(* Flow control of a relaying WebSocket session (src/app.js 49-57, 91-116). *)
(* upstreamSocket.write returns false when the socket's buffer is over its *)
(* high-water mark and the socket emits 'drain' once it has emptied; the   *)
(* WebSocket reports a full send buffer through bufferedAmount only.       *)
(***************************************************************************)
MaxFlowEvents == 3  \* messages, and upstream chunks, of one run

\* `if (!upstreamSocket.write(msg)) { workerSocket.pause();
\*  upstreamSocket.once('drain', ...) }`, the write returning ~full
writeToUpstream(f, full) ==
    IF full \/ f.upNeedsDrain
    THEN [f EXCEPT !.upNeedsDrain = TRUE, !.workerPaused = TRUE,
                   !.drainListeners = @ + 1]
    ELSE f

\* a binary message of the worker: the write of the first listener (49-57)
\* and the write of the listener the connect callback added (101-110)
onMessageFlow(f, full1, full2) ==
    [writeToUpstream(writeToUpstream(f, full1), full2) EXCEPT !.msgs = @ + 1]

\* 'drain' of the upstream socket: every once-listener resumes the worker if
\* the WebSocket is OPEN
onDrainFlow(f) ==
    [f EXCEPT !.upNeedsDrain = FALSE, !.drainListeners = 0,
              !.workerPaused = IF f.wsOpen /\ f.drainListeners > 0
                               THEN FALSE ELSE @]

\* upstreamSocket.on('data'): send if the WebSocket is OPEN; full: the send
\* leaves the send buffer full
onUpstreamDataFlow(f, full) ==
    LET f1 == [f EXCEPT !.datas = @ + 1] IN
    IF f1.wsOpen
    THEN [f1 EXCEPT !.fullSend = @ \/ f1.wsBuffered,
                    !.wsBuffered = @ \/ full]
    ELSE f1

notFlowVars ==
    <<variant, input, pos, upSent, upstreamSocket, ups, hist, relayVars,
      httpVars, serverVars>>

InitFlow == variant = "ws" /\ NoSession /\ ServerStart

\* a message is read from the WebSocket, which is not paused
FlowMessage ==
    /\ flow.wsOpen /\ ~flow.workerPaused /\ flow.msgs < MaxFlowEvents
    /\ \E full1, full2 \in BOOLEAN :
          flow' = onMessageFlow(flow, full1, full2)
    /\ UNCHANGED notFlowVars

\* the upstream socket has flushed its buffer
FlowDrain ==
    /\ flow.upNeedsDrain
    /\ flow' = onDrainFlow(flow)
    /\ UNCHANGED notFlowVars

\* a chunk is read from the upstream socket, which is not paused
FlowUpstreamData ==
    /\ ~flow.upstreamPaused /\ flow.datas < MaxFlowEvents
    /\ \E full \in BOOLEAN : flow' = onUpstreamDataFlow(flow, full)
    /\ UNCHANGED notFlowVars

\* the worker has taken what the WebSocket had buffered
FlowWsFlushed ==
    /\ flow.wsBuffered
    /\ flow' = [flow EXCEPT !.wsBuffered = FALSE]
    /\ UNCHANGED notFlowVars

\* the WebSocket leaves OPEN
FlowWsClosing ==
    /\ flow.wsOpen
    /\ flow' = [flow EXCEPT !.wsOpen = FALSE]
    /\ UNCHANGED notFlowVars

NextFlow ==
    \/ FlowMessage
    \/ FlowDrain
    \/ FlowUpstreamData
    \/ FlowWsFlushed
    \/ FlowWsClosing

SpecFlow == InitFlow /\ [][NextFlow]_vars

\* C33: in a relaying WebSocket session the worker is paused from an upstream
\* write that returned false until the upstream has drained, and no chunk of
\* the upstream is read and sent while the send buffer of the WebSocket is
\* full.
C33_Backpressure ==
    /\ (flow.upNeedsDrain /\ flow.wsOpen) => flow.workerPaused
    /\ ~flow.fullSend

\* C34: in the raw-TCP relay v2, at the step in which the upstream connects,
\* initialDataBuffer holds the leftover followed by every chunk that arrived
\* since the header was parsed, in arrival order, and nothing has been written
\* to the upstream; the step writes the success byte to the open worker,
\* writes that buffer to the upstream and starts the pipes.
C34_BufferedWhileDialingV2 ==
    [][(variant = "v2" /\ Len(ups) = 1 /\ ups[1].st = "connecting"
          /\ ups'[1].st = "open") =>
          LET after == SubSeq(input, HeaderLength(input) + 1, pos) IN
          /\ IsPrefix(hist.leftover, after)
          /\ initialDataBuffer = after
          /\ ups[1].out = <<>> /\ ups[1].piped = 0
          /\ ups'[1].out = after
          /\ initialDataBuffer' = <<>>
          /\ workerSocket = "open" => workerOut' = Append(workerOut, StatusSuccess)
          /\ ups'[1].piped = 1 /\ workerPipe' = 1]_vars

\* the upstream has just connected after a chunk arrived during the dial
C34_Witness ==
    /\ variant = "v2" /\ Len(ups) = 1 /\ ups[1].st = "open"
    /\ workerOut = <<StatusSuccess>>
    /\ hist.leftover # <<>>
    /\ Len(ups[1].out) > Len(hist.leftover)
    /\ ups[1].out = SubSeq(input, HeaderLength(input) + 1, pos)

\* an HTTP proxy session before any event
FreshHttp ==
    [clientSocket |-> "open", clientErr |-> FALSE, clientOut |-> <<>>,
     buffer |-> <<>>, clientPipe |-> FALSE, upEnded |-> FALSE,
     upstreamListeners |-> "none", upstreamSocket |-> 0, ups |-> <<>>,
     hist |-> NoHistHttp]

\* the session after the whole stream has arrived as one chunk
OneShotHttp == onClientData(FreshHttp, Pieces(input, 0, Len(input)), variant)

\* C35: in the HTTP proxy the outcome reached with the client's chunks is the
\* outcome of the same stream arriving as one chunk: a too-large close only if
\* the one chunk is closed as too large, a dial only to the target and in the
\* branch of the one chunk, a rejection only with the response of the one chunk.
C35_HttpFragmentationIndependent ==
    IsHttp =>
        /\ hist.tooLarge => OneShotHttp.hist.tooLarge
        /\ ups # <<>> =>
              /\ OneShotHttp.ups # <<>>
              /\ ups[1].host = OneShotHttp.ups[1].host
              /\ ups[1].port = OneShotHttp.ups[1].port
              /\ upstreamListeners = OneShotHttp.upstreamListeners
        /\ (ups = <<>> /\ clientOut # <<>>) => clientOut = OneShotHttp.clientOut

(***************************************************************************)
(* Shutdown with the scheduling Node guarantees: an armed timer fires.     *)
(* Nothing makes a connection end or a listener close.                     *)
(***************************************************************************)
SpecShutdownLive ==
    InitShutdown /\ [][NextShutdown]_vars /\ WF_vars(ExitTimerFire)

\* SIGINT has been handled: its timer is armed or has fired, or the handler
\* itself ended the process
Signalled == exitTimer # "none" \/ processExit.done

\* C36: after SIGINT the process eventually exits, whatever the connections
\* and the listeners do.
C36_EventuallyExits == Signalled ~> processExit.done

\* the process was forced out by the timer with a connection still open
C36_Witness ==
    /\ processExit.done /\ processExit.code = 1 /\ exitTimer = "fired"
    /\ \E c \in 1..MaxConns : conn[c] = "open"
    /\ ~tcpClosed

\* C37: in the HTTP proxy no client is written the 502 response after it has
\* been written the 200 response of a CONNECT tunnel.
C37_No502After200 ==
    IsHttp =>
        \A i, j \in 1..Len(clientOut) :
            (i < j /\ clientOut[i] = Resp200) => clientOut[j] # Resp502


\* a step that handles an error of an upstream socket or the firing of a timer
ErrorOrTimeoutStep ==
    \/ \E i \in 1..Len(ups) : ups[i].err /\ UpstreamEmitClose(i)
    \/ \E i \in 1..Len(ups) : UpstreamTimeout(i)
    \/ WorkerTimeout
    \/ ConnectTimerFire

\* the signalling bytes among what was written to the worker
SignalBytes(out) == SelectSeq(out, LAMBDA x : ~IsUpByte(x))

\* the session reached relaying: handshakeCompleted in ws and v2; in v1, which
\* keeps no such flag, the connect callback has written 0x00
ReachedRelaying ==
    IF variant = "v1" THEN Count(workerOut, StatusSuccess) >= 1
    ELSE handshakeCompleted

\* C38: in the relays (ws, v1, v2), a step that handles an upstream error or a
\* timeout and closes a worker socket that was open leaves exactly one
\* signalling byte delivered to the worker: 0x00 if the session had reached
\* relaying, 0x01 otherwise.
C38_OneSignalByteOnFailure ==
    [][(/\ variant \in {"ws", "v1", "v2"}
        /\ workerSocket \in {"open", "OPEN"}
        /\ ErrorOrTimeoutStep
        /\ ~(workerSocket' \in {"open", "OPEN"}))
       => SignalBytes(workerOut') =
              IF ReachedRelaying THEN <<StatusSuccess>>
              ELSE <<StatusFailure>>]_vars


\* the upstream endpoint U of the UDP forwarder, as a sender
TargetEndpoint == [address |-> TARGET_UDP_IP, port |-> TARGET_UDP_PORT]

C40_WorkerTimeoutOnlyBeforeTarget ==
    (variant = "v2" /\ Idle /\ workerSocket = "open") =>
        LET r == onWorkerTimeoutV2(Cur) IN
            IF targetInfoReceived
            THEN r = Cur
            ELSE /\ r.workerSocket = "destroyed" /\ r.workerErr
                 /\ r.workerOut = Append(workerOut, StatusFailure)
                 /\ r.connectTimer # "armed"
                 /\ r.hist.cleaned
                 /\ ~UpstreamAlive(r)

\* a relaying v2 session whose worker socket is open and idle: the timeout
\* can fire with the target parsed, the upstream connected and bytes relayed
C40_Witness ==
    /\ variant = "v2" /\ Idle /\ workerSocket = "open"
    /\ targetInfoReceived /\ handshakeCompleted
    /\ upstreamSocket # 0 /\ ups[upstreamSocket].st = "open"
    /\ Len(ups[upstreamSocket].out) >= 1
    /\ ENABLED WorkerTimeout

====
